---- MODULE Spec2Model ----
(***************************************************************************)
(* QTVR mosaic tool: the QuickTime atom parser (qtvr/mr_quicktime.py), the *)
(* QTVR classifier and the sample locator / mosaic compositor              *)
(* (qtvr/mosaic.py), modelled as a state machine.                          *)
(*                                                                         *)
(* SpecMosaic runs create_mosaic alone, from the tables it has read out of *)
(* a track.  Spec runs main on the bytes of a movie file: parse, classify, *)
(* dispatch, and create_mosaic on the track found in the parsed tree.      *)
(***************************************************************************)
EXTENDS Integers, Sequences, FiniteSets, TLC

VARIABLES
    file,               \* the bytes of the movie file (read by parse_file and by movie.read)
    pristine,           \* history: the bytes of the movie before an atom was put into it
    stdout,             \* what main has printed
    pc,                 \* position of the run
    qt,                 \* the parsed atom tree (QuickTime(...)), NoTree before the parse
    UNKNOWN_FOURCC,     \* module-level set of mr_quicktime
    qtype,              \* value returned by is_qtvr
    exit_status,        \* process exit status, -1 while running
    err,                \* what ended the run abnormally ("" if nothing)
    calls,              \* create_mosaic calls the handler has still to make
    trak_atom,          \* create_mosaic argument: the track subtree
    export_name,        \* create_mosaic argument
    columns, rows,      \* create_mosaic arguments
    rotate,             \* create_mosaic argument
    width, height,      \* from tkhd
    data_format,        \* from stsd
    sample_chunk_table, \* [[first_chunk, samples_per_chunk], ...] from stsc
    chunk_offsets,      \* from stco
    sample_sizes,       \* from stsz
    sample_to_chunk,    \* dict sample_id -> (chunk_id, first_in_chunk)
    index,              \* enumerate index of the stsc expansion loop
    chunk_id,           \* local of the expansion loop
    next_chunk_id,      \* local of the expansion loop
    samples_per_chunk,  \* local of the expansion loop
    sample_id,          \* local, reused by the expansion and the decode loop
    it,                 \* enumerate position of the decode loop
    sample_offset,      \* running offset inside the current chunk
    image_id,           \* page counter
    dst,                \* the canvas, NoImage before Image.new
    movie,              \* file handle: "none", "open", "closed"
    reads,              \* history: <<absolute_offset, sample_size>> of every seek+read
    images,             \* history: the image decoded for every sample, in order
    pastes,             \* history: [sample, page, pos] of every paste
    saved,              \* history: [name, img] of every dst.save, in order
    arg,                \* a field or colour decoder: what it is applied to
    result,             \* a field or colour decoder: what it returned
    f_pos,              \* create_image_rpza: f.tell()
    end_of_chunk,       \* create_image_rpza local
    frame,              \* create_image_rpza local: the RPZAFrame
    opcode,             \* create_image_rpza local
    num_blocks,         \* create_image_rpza local
    colorA,             \* create_image_rpza local
    true_colorA,        \* create_image_rpza local
    true_color_table,   \* create_image_rpza local
    color_ids,          \* create_image_rpza local
    f_reads,            \* history: [at, size, got] of every read_int made
    op_start,           \* history: f.tell() and block cursor at the last opcode byte
    start_line,         \* create_image_rle local
    number_of_lines_to_update,  \* create_image_rle local
    i_line,             \* create_image_rle: the i of the loop over the lines
    skip_count,         \* create_image_rle local
    rle_code            \* create_image_rle local

mvars == <<trak_atom, export_name, columns, rows, rotate, width, height, data_format,
           sample_chunk_table, chunk_offsets, sample_sizes, sample_to_chunk, index,
           chunk_id, next_chunk_id, samples_per_chunk, sample_id, it, sample_offset,
           image_id, dst, movie, reads, images, pastes, saved>>

pvars == <<file, pristine, stdout, qt, UNKNOWN_FOURCC, qtype, calls>>

args == <<trak_atom, export_name, columns, rows, rotate>>

locals == <<width, height, data_format, sample_chunk_table, chunk_offsets, sample_sizes,
            sample_to_chunk, index, chunk_id, next_chunk_id, samples_per_chunk, sample_id,
            it, sample_offset, image_id, dst>>

effects == <<reads, images, pastes, saved>>

rvars == <<start_line, number_of_lines_to_update, i_line, skip_count, rle_code>>

dvars == <<arg, result, f_pos, end_of_chunk, frame, opcode, num_blocks, colorA, true_colorA,
           true_color_table, color_ids, f_reads, op_start, rvars>>

vars == <<pc, exit_status, err, pvars, mvars, dvars>>

----------------------------------------------------------------------------
(* Bounds of the model *)

MaxRuns == 2        \* stsc entries
MaxChunks == 2      \* stco entries
MaxSpc == 2         \* samples_per_chunk
MaxSamples == 4     \* stsz entries
MaxGrid == 2        \* columns, rows
ChunkGap == 4       \* distance between the chunk offsets of the generated stco tables
MaxNavg == 2         \* NAVG atoms in udta
MaxColor == 65535   \* colour words given to color_to_rbg
MaxOps == 2         \* opcodes in an RPZA sample
MaxCut == 2         \* bytes missing at the end of the file
MaxWidth == 9       \* width of an RPZAFrame under next_block
MaxHeight == 9      \* height of an RPZAFrame under next_block
MaxCalls == 6       \* next_block calls on one frame
MaxCodes == 2       \* codes on a line of an RLE sample

----------------------------------------------------------------------------
(* Helpers *)

Min(a, b) == IF a < b THEN a ELSE b

Max(a, b) == IF a > b THEN a ELSE b

RECURSIVE SumSeq(_)
SumSeq(s) == IF s = <<>> THEN 0 ELSE Head(s) + SumSeq(Tail(s))

\* Python slice buf[a:b] for 0 <= a, on a 1-based TLA+ sequence
Slice(buf, a, b) == SubSeq(buf, a + 1, Min(b, Len(buf)))

\* FourCC values as the bytes of the file hold them (ASCII)
CC ==
    [moov |-> <<109, 111, 111, 118>>,
     mdat |-> <<109, 100, 97, 116>>,
     free |-> <<102, 114, 101, 101>>,
     mvhd |-> <<109, 118, 104, 100>>,
     trak |-> <<116, 114, 97, 107>>,
     udta |-> <<117, 100, 116, 97>>,
     ctyp |-> <<99, 116, 121, 112>>,
     WLOC |-> <<87, 76, 79, 67>>,
     NAVG |-> <<78, 65, 86, 71>>,
     tkhd |-> <<116, 107, 104, 100>>,
     mdia |-> <<109, 100, 105, 97>>,
     edts |-> <<101, 100, 116, 115>>,
     elst |-> <<101, 108, 115, 116>>,
     mdhd |-> <<109, 100, 104, 100>>,
     hdlr |-> <<104, 100, 108, 114>>,
     minf |-> <<109, 105, 110, 102>>,
     dinf |-> <<100, 105, 110, 102>>,
     dref |-> <<100, 114, 101, 102>>,
     stbl |-> <<115, 116, 98, 108>>,
     smhd |-> <<115, 109, 104, 100>>,
     vmhd |-> <<118, 109, 104, 100>>,
     gmhd |-> <<103, 109, 104, 100>>,
     gmin |-> <<103, 109, 105, 110>>,
     STpn |-> <<83, 84, 112, 110>>,
     pInf |-> <<112, 73, 110, 102>>,
     stco |-> <<115, 116, 99, 111>>,
     stsc |-> <<115, 116, 115, 99>>,
     stsd |-> <<115, 116, 115, 100>>,
     stts |-> <<115, 116, 116, 115>>,
     stsz |-> <<115, 116, 115, 122>>,
     stss |-> <<115, 116, 115, 115>>,
     pano |-> <<112, 97, 110, 111>>,
     rpza |-> <<114, 112, 122, 97>>,
     cvid |-> <<99, 118, 105, 100>>,
     stna |-> <<115, 116, 110, 97>>,
     stpn |-> <<115, 116, 112, 110>>,
     qtvr |-> <<113, 116, 118, 114>>,
     none |-> <<110, 111, 110, 101>>,
     xxxx |-> <<120, 120, 120, 120>>,
     junk |-> <<106, 117, 110, 107>>,
     rle |-> <<114, 108, 101, 32>>,
     smc |-> <<115, 109, 99, 32>>,
     raw |-> <<114, 97, 119, 32>>,
     alis |-> <<97, 108, 105, 115>>,
     rsrc |-> <<114, 115, 114, 99>>,
     url |-> <<117, 114, 108, 32>>]

NoTree == [klass |-> "none"]

\* no canvas yet
NoImage == [w |-> -1, h |-> -1, px |-> [p \in {} |-> 0]]

----------------------------------------------------------------------------
(* Images: the PIL facility create_mosaic uses *)

Blank == [data |-> <<>>, u |-> -1, v |-> -1]

\* Image.new("RGB", (w, h)): a black image
NewImage(w, h) == [w |-> w, h |-> h, px |-> [p \in (0 .. w - 1) \X (0 .. h - 1) |-> Blank]]

\* create_image(codec, data): the frame the codec decodes from the sample's bytes,
\* codec.width x codec.height pixels, each a function of the bytes and the position
DecodedImage(data, w, h) ==
    [w |-> w, h |-> h,
     px |-> [p \in (0 .. w - 1) \X (0 .. h - 1) |-> [data |-> data, u |-> p[1], v |-> p[2]]]]

\* dst.paste(image, pos): copies image with its top-left corner at pos, clipped to dst
Paste(canvas, image, pos) ==
    [canvas EXCEPT !.px =
        [p \in DOMAIN canvas.px |->
            IF /\ pos[1] <= p[1] /\ p[1] < pos[1] + image.w
               /\ pos[2] <= p[2] /\ p[2] < pos[2] + image.h
            THEN image.px[<<p[1] - pos[1], p[2] - pos[2]>>]
            ELSE canvas.px[p]]]

\* dst.rotate(angle, expand=True) for the right angles: counter-clockwise by angle
Rotate(img, angle) ==
    LET a == angle % 360 IN
    CASE a = 0   -> img
      [] a = 180 -> [w |-> img.w, h |-> img.h,
                     px |-> [p \in (0 .. img.w - 1) \X (0 .. img.h - 1) |->
                                img.px[<<img.w - 1 - p[1], img.h - 1 - p[2]>>]]]
      [] a = 90  -> [w |-> img.h, h |-> img.w,
                     px |-> [p \in (0 .. img.h - 1) \X (0 .. img.w - 1) |->
                                img.px[<<img.w - 1 - p[2], p[1]>>]]]
      [] a = 270 -> [w |-> img.h, h |-> img.w,
                     px |-> [p \in (0 .. img.h - 1) \X (0 .. img.w - 1) |->
                                img.px[<<p[2], img.h - 1 - p[1]>>]]]

----------------------------------------------------------------------------
(* create_mosaic *)

\* a codec table with a fifth entry
formatsWithRaw ==
    (CC.rpza :> "rpza") @@ (CC.rle :> "qtrle") @@ (CC.cvid :> "cinepak") @@ (CC.smc :> "smc")
    @@ (CC.raw :> "rawvideo")

\* formats: data_format -> ffmpeg codec name
formats ==
    (CC.rpza :> "rpza") @@ (CC.rle :> "qtrle") @@ (CC.cvid :> "cinepak") @@ (CC.smc :> "smc")

\* formats.get(data_format, None)
FormatsGet(fmt) == IF fmt \in DOMAIN formats THEN formats[fmt] ELSE "None"

\* an abnormal end that leaves the movie as it is
TerminateLeavesOpen(status, what) ==
    /\ pc' = "exit"
    /\ exit_status' = status
    /\ err' = what
    /\ movie' = movie

\* the process ends: exit(status) or an uncaught exception (status 1); a with-block
\* closes the movie handle on the way out
Terminate(status, what) ==
    /\ pc' = "exit"
    /\ exit_status' = status
    /\ err' = what
    /\ movie' = IF movie = "open" THEN "closed" ELSE movie

\* an expansion that steps sample_id once more than the ids of the chunk
AfterChunkExtra(sid, spc) == sid + spc + 1

\* value of sample_id after one chunk of the expansion loop: the inner for leaves
\* the last id of the chunk in sample_id (or leaves it alone when the range is
\* empty), then sample_id += 1
AfterChunk(sid, spc) == (IF spc > 0 THEN sid + spc - 1 ELSE sid) + 1

\* the entries the inner for writes for one chunk
ChunkEntries(sid, spc, cid) ==
    [s \in sid .. (sid + spc - 1) |-> <<cid, s = sid>>]

\* dict update: b's entries win
Update(a, b) ==
    [k \in (DOMAIN a) \cup (DOMAIN b) |-> IF k \in DOMAIN b THEN b[k] ELSE a[k]]

EmptyDict == [k \in {} |-> 0]

\* lines 96-121: codec lookup, stsc row 0, canvas, empty map
CreateMosaicSetup ==
    /\ pc = "setup"
    /\ IF FormatsGet(data_format) = "None"
       THEN /\ Terminate(1, "unsupported codec")
            /\ UNCHANGED <<dst, sample_to_chunk, sample_id, sample_offset, index>>
       ELSE IF sample_chunk_table = <<>>
       THEN /\ Terminate(1, "IndexError")
            /\ UNCHANGED <<dst, sample_to_chunk, sample_id, sample_offset, index>>
       ELSE /\ pc' = "for_run"
            /\ sample_offset' = 0
            /\ dst' = NewImage(width * columns, height * rows)
            /\ sample_to_chunk' = EmptyDict
            /\ sample_id' = 0
            /\ index' = 0
            /\ UNCHANGED <<exit_status, err, movie>>
    /\ UNCHANGED <<dvars, pvars, trak_atom, export_name, columns, rows, rotate, width, height,
                   data_format, sample_chunk_table, chunk_offsets, sample_sizes, chunk_id,
                   next_chunk_id, samples_per_chunk, it, image_id, reads, images, pastes,
                   saved>>

\* lines 125-130: the for loop takes the next stsc row, or ends
RunEnter ==
    /\ pc = "for_run"
    /\ IF index < Len(sample_chunk_table)
       THEN /\ chunk_id' = sample_chunk_table[index + 1][1]
            /\ samples_per_chunk' = sample_chunk_table[index + 1][2]
            /\ next_chunk_id' = IF Len(sample_chunk_table) > index + 1
                                THEN sample_chunk_table[index + 2][1]
                                ELSE Len(chunk_offsets) + 1
            /\ pc' = "while_chunk"
       ELSE /\ pc' = "open"
            /\ UNCHANGED <<chunk_id, samples_per_chunk, next_chunk_id>>
    /\ UNCHANGED <<dvars, exit_status, err, pvars, trak_atom, export_name, columns, rows, rotate,
                   width, height, data_format, sample_chunk_table, chunk_offsets,
                   sample_sizes, sample_to_chunk, index, sample_id, it, sample_offset,
                   image_id, dst, movie, reads, images, pastes, saved>>

\* lines 131-138: one pass of the while loop, or its end
ChunkExpand ==
    /\ pc = "while_chunk"
    /\ IF chunk_id < next_chunk_id
       THEN /\ sample_to_chunk' =
                  Update(sample_to_chunk, ChunkEntries(sample_id, samples_per_chunk, chunk_id))
            /\ chunk_id' = chunk_id + 1
            /\ sample_id' = AfterChunk(sample_id, samples_per_chunk)
            /\ UNCHANGED <<pc, index>>
       ELSE /\ index' = index + 1
            /\ pc' = "for_run"
            /\ UNCHANGED <<sample_to_chunk, chunk_id, sample_id>>
    /\ UNCHANGED <<dvars, exit_status, err, pvars, trak_atom, export_name, columns, rows, rotate,
                   width, height, data_format, sample_chunk_table, chunk_offsets,
                   sample_sizes, next_chunk_id, samples_per_chunk, it, sample_offset,
                   image_id, dst, movie, reads, images, pastes, saved>>

\* lines 140-141
OpenMovie ==
    /\ pc = "open"
    /\ image_id' = 0
    /\ movie' = "open"
    /\ it' = 0
    /\ pc' = "loop"
    /\ UNCHANGED <<dvars, exit_status, err, pvars, trak_atom, export_name, columns, rows, rotate,
                   width, height, data_format, sample_chunk_table, chunk_offsets,
                   sample_sizes, sample_to_chunk, index, chunk_id, next_chunk_id,
                   samples_per_chunk, sample_id, sample_offset, dst, reads, images, pastes,
                   saved>>

\* chunk_offsets[i] with Python's indexing (0-based, negative from the end)
IndexOk(seq, i) == -Len(seq) <= i /\ i < Len(seq)

PyIndex(seq, i) == IF i >= 0 THEN seq[i + 1] ELSE seq[Len(seq) + i + 1]

\* a locator that never resets the running offset
OffsetNeverReset(first_in_chunk, running) == running

\* lines 144-145: the running offset the sample is read at
OffsetInChunk(first_in_chunk, running) == IF first_in_chunk THEN 0 ELSE running

\* lines 146-147
AbsoluteOffset(offsets, cid, first_in_chunk, running) ==
    PyIndex(offsets, cid - 1) + OffsetInChunk(first_in_chunk, running)

\* movie.seek(offset); movie.read(size)
ReadAt(offset, size) == Slice(file, offset, offset + size)

\* a compositor that does not start over on a new page
SampleIdNoPage(sid, page, nrows, ncols) == sid

\* lines 156-160
SampleIdCalc(sid, page, nrows, ncols) ==
    LET number_of_samples_in_previous_image == nrows * ncols * page IN
    IF sid >= number_of_samples_in_previous_image
    THEN sid - number_of_samples_in_previous_image
    ELSE sid

\* a compositor that fills the grid column by column
CellPosByColumn(calc, ncols, w, h) == <<(calc \div ncols) * w, (calc % ncols) * h>>

\* lines 162-164
CellPos(calc, ncols, w, h) == <<(calc % ncols) * w, (calc \div ncols) * h>>

\* a page test that saves the canvas at every sample
PageFullAlways(sid, nrows, ncols) == TRUE

\* line 168
PageFull(sid, nrows, ncols) == ((sid + 1) % (nrows * ncols)) = 0

\* line 171
PngName(page, name) == <<page, name>>

\* the sample the decode loop is at can be located: lines 143 and 146 succeed
Located ==
    /\ it < Len(sample_sizes)
    /\ it \in DOMAIN sample_to_chunk
    /\ IndexOk(chunk_offsets, sample_to_chunk[it][1] - 1)

\* lines 142-173: one pass of the decode loop
SampleStep ==
    /\ pc = "loop"
    /\ it < Len(sample_sizes)
    /\ sample_id' = it
    /\ IF it \notin DOMAIN sample_to_chunk
       THEN /\ Terminate(1, "KeyError")
            /\ UNCHANGED <<chunk_id, sample_offset, reads, images, pastes, dst, saved,
                           image_id, it>>
       ELSE LET sample_size == sample_sizes[it + 1]
                cid == sample_to_chunk[it][1]
                first_in_chunk == sample_to_chunk[it][2]
            IN
            /\ chunk_id' = cid
            /\ IF ~IndexOk(chunk_offsets, cid - 1)
               THEN /\ Terminate(1, "IndexError")
                    /\ sample_offset' = OffsetInChunk(first_in_chunk, sample_offset)
                    /\ UNCHANGED <<reads, images, pastes, dst, saved, image_id, it>>
               ELSE LET absolute_offset ==
                            AbsoluteOffset(chunk_offsets, cid, first_in_chunk, sample_offset)
                        data == ReadAt(absolute_offset, sample_size)
                        image == DecodedImage(data, width, height)
                        calc == SampleIdCalc(it, image_id, rows, columns)
                    IN
                    /\ reads' = Append(reads, <<absolute_offset, sample_size>>)
                    /\ images' = Append(images, image)
                    /\ sample_offset' =
                           OffsetInChunk(first_in_chunk, sample_offset) + sample_size
                    /\ IF columns = 0
                       THEN /\ Terminate(1, "ZeroDivisionError")
                            /\ UNCHANGED <<pastes, dst, saved, image_id, it>>
                       ELSE LET pos == CellPos(calc, columns, width, height)
                                pasted == Paste(dst, image, pos)
                            IN
                            /\ pastes' = Append(pastes,
                                   [sample |-> it, page |-> image_id, pos |-> pos])
                            /\ IF rows = 0
                               THEN /\ Terminate(1, "ZeroDivisionError")
                                    /\ dst' = pasted
                                    /\ UNCHANGED <<saved, image_id, it>>
                               ELSE /\ IF PageFull(it, rows, columns)
                                       THEN /\ saved' = Append(saved,
                                                 [name |-> PngName(image_id, export_name),
                                                  img |-> IF rotate # 0
                                                          THEN Rotate(pasted, rotate)
                                                          ELSE pasted])
                                            /\ dst' = NewImage(width * columns, height * rows)
                                            /\ image_id' = image_id + 1
                                       ELSE /\ dst' = pasted
                                            /\ UNCHANGED <<saved, image_id>>
                                    /\ it' = it + 1
                                    /\ UNCHANGED <<pc, exit_status, err, movie>>
    /\ UNCHANGED <<dvars, pvars, trak_atom, export_name, columns, rows, rotate, width, height,
                   data_format, sample_chunk_table, chunk_offsets, sample_sizes,
                   sample_to_chunk, index, next_chunk_id, samples_per_chunk>>

\* line 152 raising: the codec rejects the bytes of the sample the loop is at
DecodeError ==
    /\ pc = "loop"
    /\ Located
    /\ LET cid == sample_to_chunk[it][1]
           first_in_chunk == sample_to_chunk[it][2]
       IN
       /\ sample_id' = it
       /\ chunk_id' = cid
       /\ sample_offset' = OffsetInChunk(first_in_chunk, sample_offset)
       /\ reads' = Append(reads,
              <<AbsoluteOffset(chunk_offsets, cid, first_in_chunk, sample_offset),
                sample_sizes[it + 1]>>)
    /\ Terminate(1, "DecodeError")
    /\ UNCHANGED <<dvars, pvars, trak_atom, export_name, columns, rows, rotate, width, height,
                   data_format, sample_chunk_table, chunk_offsets, sample_sizes,
                   sample_to_chunk, index, next_chunk_id, samples_per_chunk, it, image_id,
                   dst, images, pastes, saved>>

\* the decode loop is exhausted: the with-block closes the movie, create_mosaic returns
CreateMosaicReturn ==
    /\ pc = "loop"
    /\ it >= Len(sample_sizes)
    /\ movie' = "closed"
    /\ pc' = "returned"
    /\ UNCHANGED <<dvars, exit_status, err, pvars, trak_atom, export_name, columns, rows, rotate,
                   width, height, data_format, sample_chunk_table, chunk_offsets,
                   sample_sizes, sample_to_chunk, index, chunk_id, next_chunk_id,
                   samples_per_chunk, sample_id, it, sample_offset, image_id, dst, reads,
                   images, pastes, saved>>

----------------------------------------------------------------------------
(* create_mosaic run alone: the tables as read out of a track *)

\* stsc tables: rows ordered by first_chunk, as the file format lays them out;
\* first_chunk may start after chunk 1 or lie past the last chunk, and a row may
\* give a chunk no sample
RunTables ==
    UNION {
        { t \in [1 .. n -> (1 .. MaxChunks + 1) \X (0 .. MaxSpc)] :
            \A i \in 1 .. n - 1 : t[i][1] < t[i + 1][1] }
        : n \in 0 .. MaxRuns }

OffsetTables(k) ==
    { [i \in 1 .. k |-> ChunkGap * (i - 1)], [i \in 1 .. k |-> ChunkGap * (k - i) + 1] }

SizeTables(n) == { [i \in 1 .. n |-> 2], [i \in 1 .. n |-> i] }

\* a movie file whose byte at offset i is i
MosaicFile == [i \in 1 .. ChunkGap * (MaxSamples + 2) |-> (i - 1) % 256]

\* sample locator cases: every stsc table against every chunk and sample count
LocatorInputs ==
    { [runs |-> t, offsets |-> o, sizes |-> z, cols |-> 2, nrows |-> 1, w |-> 2, h |-> 1,
       rot |-> 0, fmt |-> CC.rpza]
      : t \in RunTables,
        o \in UNION { OffsetTables(k) : k \in 0 .. MaxChunks },
        z \in UNION { SizeTables(n) : n \in 0 .. MaxSamples } }

\* grid cases: every grid, tile shape and rotation against every sample count,
\* one sample per chunk or all samples in one chunk
GridInputs ==
    { [runs |-> <<<<1, r[1]>>>>, offsets |-> [i \in 1 .. r[2] |-> ChunkGap * (i - 1)],
       sizes |-> [i \in 1 .. n |-> 2], cols |-> c, nrows |-> q, w |-> d[1], h |-> d[2],
       rot |-> a, fmt |-> CC.rpza]
      : r \in { <<1, n>> : n \in 0 .. MaxSamples } \cup { <<n, 1>> : n \in 1 .. MaxSamples },
        n \in 0 .. MaxSamples, c \in 0 .. MaxGrid, q \in 0 .. MaxGrid,
        d \in { <<2, 1>>, <<1, 2>> }, a \in { 0, -90 } }

\* codec cases
FormatInputs ==
    { [runs |-> <<<<1, 1>>>>, offsets |-> <<0, ChunkGap>>, sizes |-> <<2, 2>>, cols |-> 2,
       nrows |-> 1, w |-> 2, h |-> 1, rot |-> 0, fmt |-> f]
      : f \in { CC.rpza, CC.rle, CC.cvid, CC.smc, CC.raw, CC.none } }

MosaicInputs == LocatorInputs \cup GridInputs \cup FormatInputs

\* the locals of create_mosaic at line 96, for one input
EnterCreateMosaic(in) ==
    /\ columns = in.cols
    /\ rows = in.nrows
    /\ rotate = in.rot
    /\ width = in.w
    /\ height = in.h
    /\ data_format = in.fmt
    /\ sample_chunk_table = in.runs
    /\ chunk_offsets = in.offsets
    /\ sample_sizes = in.sizes

\* no decoder of src/ is running
\* create_image_rle is not running
NoRle ==
    /\ start_line = 0
    /\ number_of_lines_to_update = 0
    /\ i_line = 0
    /\ skip_count = 0
    /\ rle_code = 0

NoDecoder ==
    /\ arg = [fn |-> "none"]
    /\ result = [none |-> TRUE]
    /\ f_pos = 0
    /\ end_of_chunk = 0
    /\ frame = [width |-> 0, height |-> 0, surface |-> <<>>, pos_x |-> 0, pos_y |-> 0,
                current_block |-> 0]
    /\ opcode = 0
    /\ num_blocks = 0
    /\ colorA = 0
    /\ true_colorA = <<>>
    /\ true_color_table = <<>>
    /\ color_ids = <<>>
    /\ f_reads = {}
    /\ op_start = [pos |-> 0, block |-> 0]
    /\ NoRle

FreshLocals ==
    /\ sample_to_chunk = EmptyDict
    /\ index = 0
    /\ chunk_id = 0
    /\ next_chunk_id = 0
    /\ samples_per_chunk = 0
    /\ sample_id = 0
    /\ it = 0
    /\ sample_offset = 0
    /\ image_id = 0
    /\ dst = NoImage
    /\ movie = "none"
    /\ reads = <<>>
    /\ images = <<>>
    /\ pastes = <<>>
    /\ saved = <<>>

InitMosaic ==
    /\ pc = "setup"
    /\ exit_status = -1
    /\ err = ""
    /\ file = MosaicFile
    /\ pristine = MosaicFile
    /\ stdout = <<>>
    /\ qt = NoTree
    /\ UNKNOWN_FOURCC = {}
    /\ qtype = "unset"
    /\ calls = <<>>
    /\ trak_atom = NoTree
    /\ export_name = "mosaic"
    /\ \E in \in MosaicInputs : EnterCreateMosaic(in)
    /\ FreshLocals
    /\ NoDecoder

NextMosaic ==
    \/ CreateMosaicSetup
    \/ RunEnter
    \/ ChunkExpand
    \/ OpenMovie
    \/ SampleStep
    \/ DecodeError
    \/ CreateMosaicReturn

SpecMosaic == InitMosaic /\ [][NextMosaic]_vars

----------------------------------------------------------------------------
(* Properties of create_mosaic (SpecMosaic) *)

Grid == columns * rows

\* C1: with rotation 0 and exactly cols*rows samples of W x H pixels, sample s is
\* pasted at ((s mod cols)*W, (s div cols)*H), and pixel (col*W+u, row*H+v) of the
\* saved mosaic is pixel (u, v) of the image decoded from sample row*cols+col
C1_PlacementLaw ==
    (rotate = 0 /\ Grid >= 1 /\ Len(sample_sizes) = Grid) =>
        /\ \A i \in 1 .. Len(pastes) :
              pastes[i].pos = <<((i - 1) % columns) * width, ((i - 1) \div columns) * height>>
        /\ pc = "returned" =>
              /\ Len(saved) = 1
              /\ saved[1].img.w = columns * width
              /\ saved[1].img.h = rows * height
              /\ \A col \in 0 .. columns - 1, row \in 0 .. rows - 1,
                    u \in 0 .. width - 1, v \in 0 .. height - 1 :
                    saved[1].img.px[<<col * width + u, row * height + v>>]
                        = images[row * columns + col + 1].px[<<u, v>>]

C1_Witness ==
    /\ pc = "returned"
    /\ rotate = 0
    /\ columns = 2
    /\ rows = 2
    /\ width = 2
    /\ height = 1
    /\ Len(sample_sizes) = 4
    /\ Len(saved) = 1
    /\ saved[1].img.px[<<3, 1>>] = images[4].px[<<1, 0>>]
    /\ saved[1].img.px[<<3, 1>>] # saved[1].img.px[<<1, 1>>]

\* sizes of the samples before j that the map puts in chunk c
RECURSIVE EarlierInChunk(_, _)
EarlierInChunk(j, c) ==
    IF j = 0 THEN 0
    ELSE EarlierInChunk(j - 1, c)
         + (IF sample_to_chunk[j - 1][1] = c THEN sample_sizes[j] ELSE 0)

\* C2: every sample read is read at chunk_offsets[chunk_id - 1] plus the sizes of
\* the earlier samples of the same chunk, so the byte ranges of the samples of one
\* chunk follow each other without gap or overlap
C2_SampleOffsets ==
    /\ \A j \in 0 .. Len(reads) - 1 :
          /\ j \in DOMAIN sample_to_chunk
          /\ reads[j + 1] =
                <<PyIndex(chunk_offsets, sample_to_chunk[j][1] - 1)
                    + EarlierInChunk(j, sample_to_chunk[j][1]),
                  sample_sizes[j + 1]>>
    /\ \A j \in 0 .. Len(reads) - 2 :
          sample_to_chunk[j][1] = sample_to_chunk[j + 1][1] =>
              reads[j + 2][1] = reads[j + 1][1] + reads[j + 1][2]
    /\ \A j, k \in 0 .. Len(reads) - 1 :
          (j < k /\ sample_to_chunk[j][1] = sample_to_chunk[k][1]) =>
              reads[j + 1][1] + reads[j + 1][2] <= reads[k + 1][1]

C2_Witness ==
    /\ Len(reads) >= 3
    /\ sample_to_chunk[0][1] = sample_to_chunk[1][1]
    /\ sample_to_chunk[2][1] # sample_to_chunk[1][1]
    /\ reads[2][1] = reads[1][1] + reads[1][2]
    /\ reads[3][1] = PyIndex(chunk_offsets, sample_to_chunk[2][1] - 1)

\* the chunks stsc row i applies to: first_chunk_i up to but excluding
\* first_chunk_(i+1), the last row through the last chunk of stco
SpanOf(i) ==
    LET last == IF i < Len(sample_chunk_table)
                THEN sample_chunk_table[i + 1][1] - 1
                ELSE Len(chunk_offsets)
    IN sample_chunk_table[i][1] .. last

\* samples the table allocates: sum of samples_per_chunk_i * span_i
RECURSIVE Allocated(_)
Allocated(i) ==
    IF i = 0 THEN 0
    ELSE Allocated(i - 1) + sample_chunk_table[i][2] * Cardinality(SpanOf(i))

\* ids allocated before chunk c of row i, counting allocated samples only
IdsBefore(i, c) ==
    Allocated(i - 1) + sample_chunk_table[i][2] * (c - sample_chunk_table[i][1])

\* C3: when the rows allocate as many samples as stsz lists, the expanded map has
\* exactly the keys 0..total-1, every chunk of row i holds samples_per_chunk_i
\* consecutive ids in ascending chunk order, exactly the lowest id of a chunk is
\* flagged first_in_chunk, and no lookup of the decode loop fails
C3_MapTotal ==
    (/\ pc \in {"open", "loop", "returned", "exit"}
     /\ sample_chunk_table # <<>>
     /\ FormatsGet(data_format) # "None"
     /\ Allocated(Len(sample_chunk_table)) = Len(sample_sizes)) =>
        /\ DOMAIN sample_to_chunk = 0 .. Len(sample_sizes) - 1
        /\ \A i \in 1 .. Len(sample_chunk_table) : \A c \in SpanOf(i) :
              \A n \in 0 .. sample_chunk_table[i][2] - 1 :
                  /\ IdsBefore(i, c) + n \in DOMAIN sample_to_chunk
                  /\ sample_to_chunk[IdsBefore(i, c) + n] = <<c, n = 0>>
        /\ err # "KeyError"

\* the pixels of the images decoded from the samples of page p (0-based)
OwnPixels(p) ==
    UNION { { images[k + 1].px[q] : q \in DOMAIN images[k + 1].px }
            : k \in p * Grid .. (p + 1) * Grid - 1 }

\* C4: with m*cols*rows samples (m >= 1) exactly m PNGs are saved, numbered
\* 0..m-1 in order; sample k is pasted on page k div (cols*rows) at cell
\* k mod (cols*rows); the canvas is blank again after a save, so a saved page
\* shows tiles of its own samples only
C4_Pages ==
    (Grid >= 1 /\ Len(sample_sizes) >= Grid /\ Len(sample_sizes) % Grid = 0) =>
        /\ \A i \in 1 .. Len(pastes) :
              /\ pastes[i].sample = i - 1
              /\ pastes[i].page = (i - 1) \div Grid
              /\ pastes[i].pos = <<(((i - 1) % Grid) % columns) * width,
                                   (((i - 1) % Grid) \div columns) * height>>
        /\ \A i \in 1 .. Len(saved) :
              /\ saved[i].name = <<i - 1, export_name>>
              /\ \A q \in DOMAIN saved[i].img.px : saved[i].img.px[q] \in OwnPixels(i - 1)
        /\ (pc = "loop" /\ it % Grid = 0) => \A q \in DOMAIN dst.px : dst.px[q] = Blank
        /\ pc = "returned" => Len(saved) = Len(sample_sizes) \div Grid

C4_Witness ==
    /\ pc = "returned"
    /\ Grid = 2
    /\ Len(sample_sizes) = 4
    /\ Len(saved) = 2
    /\ saved[1].img # saved[2].img

----------------------------------------------------------------------------
(* Bytes and mrcrowbar fields *)

\* mrc.UInt32_BE(off), for the values below 2^31
U32At(buf, off) ==
    ((buf[off + 1] * 256 + buf[off + 2]) * 256 + buf[off + 3]) * 256 + buf[off + 4]

\* mrc.UInt16_BE(off)
U16At(buf, off) == buf[off + 1] * 256 + buf[off + 2]

\* a signed 32-bit read in the other byte order
I32AtLittle(buf, off) ==
    (((IF buf[off + 4] >= 128 THEN buf[off + 4] - 256 ELSE buf[off + 4]) * 256
      + buf[off + 3]) * 256 + buf[off + 2]) * 256 + buf[off + 1]

\* mrc.Int32_BE(off), struct.unpack(">i")
I32At(buf, off) ==
    (((IF buf[off + 1] >= 128 THEN buf[off + 1] - 256 ELSE buf[off + 1]) * 256
      + buf[off + 2]) * 256 + buf[off + 3]) * 256 + buf[off + 4]

\* mrc.Int16_BE(off)
I16At(buf, off) == IF U16At(buf, off) >= 32768 THEN U16At(buf, off) - 65536 ELSE U16At(buf, off)

\* int(x) of the float FixedFractionField yields for the word at off: n / 65536
\* truncated towards zero
FixedIntAt(buf, off) ==
    LET n == I32At(buf, off) IN
    IF n >= 0 THEN n \div 65536 ELSE -((-n) \div 65536)

\* mrc.Bytes(off, length=n)
BytesAt(buf, off, n) == Slice(buf, off, off + n)

----------------------------------------------------------------------------
(* make_fourcc, mrcdict, create_knowntype *)

None == <<-1>>

IsCont(b) == 128 <= b /\ b <= 191

Cons(x, r) == IF r = None THEN None ELSE <<x>> \o r

\* bytes.decode(): strict UTF-8, the code points or None on UnicodeDecodeError
RECURSIVE Utf8Decode(_)
Utf8Decode(s) ==
    IF s = <<>> THEN <<>>
    ELSE LET b == s[1]
             n == Len(s)
         IN
         IF b < 128 THEN Cons(b, Utf8Decode(Tail(s)))
         ELSE IF 194 <= b /\ b <= 223 /\ n >= 2 /\ IsCont(s[2])
         THEN Cons((b - 192) * 64 + (s[2] - 128), Utf8Decode(SubSeq(s, 3, n)))
         ELSE IF /\ 224 <= b /\ b <= 239 /\ n >= 3 /\ IsCont(s[2]) /\ IsCont(s[3])
                 /\ (b = 224 => s[2] >= 160)
                 /\ (b = 237 => s[2] <= 159)
         THEN Cons(((b - 224) * 64 + (s[2] - 128)) * 64 + (s[3] - 128),
                   Utf8Decode(SubSeq(s, 4, n)))
         ELSE IF /\ 240 <= b /\ b <= 244 /\ n >= 4
                 /\ IsCont(s[2]) /\ IsCont(s[3]) /\ IsCont(s[4])
                 /\ (b = 240 => s[2] >= 144)
                 /\ (b = 244 => s[2] <= 143)
         THEN Cons((((b - 240) * 64 + (s[2] - 128)) * 64 + (s[3] - 128)) * 64 + (s[4] - 128),
                   Utf8Decode(SubSeq(s, 5, n)))
         ELSE None

\* make_fourcc(key) for a bytes key
make_fourcc(key) == Utf8Decode(key)

ContainerKlasses ==
    {"QuickTime", "moovAtom", "trakAtom", "mdiaAtom", "minfAtom", "stblAtom", "edtsAtom",
     "dinfAtom", "gmhdAtom", "STpnAtom", "udtaAtom"}

\* MAPPING of every container class
MAPPING(klass) ==
    CASE klass = "QuickTime" ->
            (CC.mdat :> "mdatAtom") @@ (CC.moov :> "moovAtom") @@ (CC.free :> "freeAtom")
      [] klass = "moovAtom" ->
            (CC.mvhd :> "mvhdAtom") @@ (CC.trak :> "trakAtom") @@ (CC.udta :> "udtaAtom")
      [] klass = "trakAtom" ->
            (CC.mdia :> "mdiaAtom") @@ (CC.tkhd :> "tkhdAtom") @@ (CC.edts :> "edtsAtom")
      [] klass = "mdiaAtom" ->
            (CC.mdhd :> "mdhdAtom") @@ (CC.hdlr :> "hdlrAtom") @@ (CC.minf :> "minfAtom")
      [] klass = "minfAtom" ->
            (CC.hdlr :> "hdlrAtom") @@ (CC.dinf :> "dinfAtom") @@ (CC.stbl :> "stblAtom")
            @@ (CC.smhd :> "smhdAtom") @@ (CC.vmhd :> "vmhdAtom") @@ (CC.gmhd :> "gmhdAtom")
      [] klass = "stblAtom" ->
            (CC.stco :> "stcoAtom") @@ (CC.stsc :> "stscAtom") @@ (CC.stsd :> "stsdAtom")
            @@ (CC.stts :> "sttsAtom") @@ (CC.stsz :> "stszAtom") @@ (CC.stss :> "stssAtom")
      [] klass = "edtsAtom" -> (CC.elst :> "elstAtom")
      [] klass = "dinfAtom" -> (CC.dref :> "drefAtom")
      [] klass = "gmhdAtom" -> (CC.gmin :> "gminAtom") @@ (CC.STpn :> "STpnAtom")
      [] klass = "STpnAtom" -> (CC.pInf :> "pInfAtom")
      [] klass = "udtaAtom" ->
            (CC.ctyp :> "ctypAtom") @@ (CC.WLOC :> "WLOCAtom") @@ (CC.NAVG :> "NAVGAtom")
      [] klass = "SampleDescriptionTable" ->
            (CC.pano :> "PanoSampleDescriptionTableEntry")
            @@ (CC.cvid :> "VideoSampleDescriptionTableEntry")
            @@ (CC.rpza :> "VideoSampleDescriptionTableEntry")
            @@ (CC.smc :> "VideoSampleDescriptionTableEntry")
            @@ (CC.rle :> "VideoSampleDescriptionTableEntry")

\* one CHUNK_MAP held by ContainerAtom and updated by every container class
SharedChunkMap(klass) ==
    MAPPING("QuickTime") @@ MAPPING("moovAtom") @@ MAPPING("trakAtom") @@ MAPPING("mdiaAtom")
    @@ MAPPING("minfAtom") @@ MAPPING("stblAtom") @@ MAPPING("edtsAtom") @@ MAPPING("dinfAtom")
    @@ MAPPING("gmhdAtom") @@ MAPPING("STpnAtom") @@ MAPPING("udtaAtom")
    @@ MAPPING("SampleDescriptionTable")

\* CHUNK_MAP = mrcdict(); CHUNK_MAP.update(MAPPING)
CHUNK_MAP(klass) == MAPPING(klass)

\* mrcdict.base_class of the container's CHUNK_MAP
base_class(klass) ==
    IF klass = "SampleDescriptionTable" THEN "VideoSampleDescriptionTableEntry"
    ELSE "GobbleAtom"

\* default_klass of the container's ChunkField
default_klass(klass) == "GobbleAtom"

\* stream_end set on the ChunkField of ContainerAtom
StreamEndEverywhere(klass) == <<0, 0, 0, 0>>

\* stream_end of the container's ChunkField (<<>>: none)
stream_end(klass) == IF klass = "udtaAtom" THEN <<0, 0, 0, 0>> ELSE <<>>

\* a dict that fakes no key
ContainsPlain(klass, key) == key \in DOMAIN CHUNK_MAP(klass)

\* mrcdict.__contains__
Contains(klass, key) ==
    IF make_fourcc(key) # None THEN TRUE ELSE key \in DOMAIN CHUNK_MAP(klass)

\* create_knowntype: the class made for the key and the FourCC it registers
create_knowntype(key, base) ==
    [klass |-> "Unknown", base |-> base, fourcc |-> make_fourcc(key),
     added |-> {make_fourcc(key)}]

\* mrcdict.__getitem__ with __missing__
GetItem(klass, key) ==
    IF key \in DOMAIN CHUNK_MAP(klass)
    THEN [klass |-> CHUNK_MAP(klass)[key], base |-> "", fourcc |-> <<>>, added |-> {}]
    ELSE create_knowntype(key, base_class(klass))

\* what mrc does with a chunk id: if key in dict: dict[key], else default_klass
LookupKlass(klass, key) ==
    IF Contains(klass, key)
    THEN GetItem(klass, key)
    ELSE [klass |-> default_klass(klass), base |-> "", fourcc |-> <<>>, added |-> {}]

----------------------------------------------------------------------------
(* The ChunkField stream: children of a container *)

\* the element of a one-element set: { e(x) : x \in {v} } evaluates v once
The(S) == CHOOSE x \in S : TRUE

\* the chunk stream of buf[pointer:], length before id, length inclusive: the id,
\* size and payload of each chunk; the stream stops at the end of the buffer, at
\* the end marker, or at a header that is short, below 8 or past the end
RECURSIVE Split(_, _, _)
Split(buf, pointer, marker) ==
    LET Stop(why) == <<[stop |-> why, id |-> <<>>, size |-> 0, payload |-> <<>>,
                        left |-> Len(buf) - pointer]>>
    IN
    IF pointer >= Len(buf)
    THEN <<>>
    ELSE IF marker # <<>> /\ Slice(buf, pointer, pointer + 4) = marker
    THEN Stop("end")
    ELSE IF Len(buf) - pointer < 8
    THEN Stop("malformed")
    \* a size of 2^31 or more lies past the end of any buffer
    ELSE IF \/ buf[pointer + 1] >= 128
            \/ U32At(buf, pointer) < 8
            \/ pointer + U32At(buf, pointer) > Len(buf)
    THEN Stop("malformed")
    ELSE <<[stop |-> "", id |-> Slice(buf, pointer + 4, pointer + 8),
            size |-> U32At(buf, pointer),
            payload |-> Slice(buf, pointer + 8, pointer + U32At(buf, pointer)),
            left |-> 0]>>
         \o Split(buf, pointer + U32At(buf, pointer), marker)

NoChunks == [ok |-> TRUE, atoms |-> <<>>, unknown |-> {}, left |-> 0]

\* the children parsed from a chunk stream: raw is the stream, kids what each chunk
\* of it parsed to.  The parse raises at the first child that does, or at the
\* malformed header; unknown holds the FourCCs registered up to there
Collect(raw, kids) ==
    LET bad == { i \in 1 .. Len(kids) : ~kids[i].ok }
        upto == IF bad = {} THEN Len(kids) ELSE CHOOSE i \in bad : \A j \in bad : i <= j
        last == IF raw = <<>> THEN "" ELSE raw[Len(raw)].stop
    IN
    [ok |-> bad = {} /\ last # "malformed",
     atoms |-> [i \in 1 .. Len(kids) |-> kids[i].atom],
     unknown |-> UNION { kids[i].unknown : i \in 1 .. upto },
     left |-> IF last = "end" THEN raw[Len(raw)].left ELSE 0]

\* children of a container of class klass parsed from buf[pointer:], the FourCCs
\* registered on the way and the bytes left from a stream_end marker on; the
\* payload of an stsd atom holds a SampleDescriptionTable, a container without a
\* header
RECURSIVE ParseAtoms(_, _, _)
RECURSIVE ParseChunk(_, _)
ParseChunk(klass, c) ==
    The({ The({ [ok |-> inner.ok,
                 unknown |-> k.added \cup inner.unknown,
                 atom |-> [id |-> c.id, size |-> c.size, klass |-> k.klass,
                           base |-> k.base, fourcc |-> k.fourcc, atoms |-> inner.atoms,
                           data |-> IF k.klass \in ContainerKlasses THEN <<>>
                                    ELSE c.payload,
                           left |-> inner.left]]
               : inner \in { IF k.klass \in ContainerKlasses
                             THEN ParseAtoms(c.payload, 0, k.klass)
                             ELSE IF k.klass = "stsdAtom" /\ Len(c.payload) > 8
                             THEN ParseAtoms(c.payload, 8, "SampleDescriptionTable")
                             ELSE NoChunks } })
          : k \in { LookupKlass(klass, c.id) } })

ParseAtoms(buf, pointer, klass) ==
    The({ The({ Collect(raw, kids)
               : kids \in { [i \in { j \in 1 .. Len(raw) : raw[j].stop = "" } |->
                               ParseChunk(klass, raw[i])] \o <<>> } })
          : raw \in { Split(buf, pointer, stream_end(klass)) } })

\* QuickTime(f.read())
QuickTime(bytes) ==
    The({ [ok |-> r.ok, unknown |-> r.unknown,
           tree |-> [id |-> <<>>, size |-> Len(bytes) + 8, klass |-> "QuickTime",
                     base |-> "", fourcc |-> <<>>, atoms |-> r.atoms, data |-> <<>>,
                     left |-> r.left]]
          : r \in { ParseAtoms(bytes, 0, "QuickTime") } })

----------------------------------------------------------------------------
(* Atom tree queries and the classifier *)

\* isinstance(atom, atom_kls): a class made by create_knowntype derives from its base
IsInstance(atom, kls) ==
    atom.klass = kls \/ (atom.klass = "Unknown" /\ atom.base = kls)

RECURSIVE get_atoms(_, _)
RECURSIVE get_atoms_of(_, _)
\* get_atoms over a list of chunks, in document order
get_atoms_of(chunks, kls) ==
    IF chunks = <<>> THEN <<>>
    ELSE get_atoms(Head(chunks), kls) \o get_atoms_of(Tail(chunks), kls)

get_atoms(atom, kls) ==
    (IF IsInstance(atom, kls) THEN <<atom>> ELSE <<>>)
    \o (IF atom.klass \in ContainerKlasses THEN get_atoms_of(atom.atoms, kls) ELSE <<>>)

\* get_atom: "AssertionError" when several, None when none
NoAtom == [klass |-> "None"]

AssertionError == [klass |-> "AssertionError"]

\* a lookup that leaves uniqueness to its caller: the first of several
get_atom_first(atom, kls) ==
    LET found == IF atom = [klass |-> "None"] THEN <<>> ELSE get_atoms(atom, kls) IN
    IF found # <<>> THEN found[1] ELSE [klass |-> "None"]

get_atom(atom, kls) ==
    LET found == IF atom = NoAtom THEN <<>> ELSE get_atoms(atom, kls) IN
    IF Len(found) > 1 THEN AssertionError
    ELSE IF found # <<>> THEN found[1]
    ELSE NoAtom

\* a classifier that knows one spelling of the panorama controller
is_qtvr_stpn(atom) ==
    LET ctyp == get_atom(atom, "ctypAtom") IN
    IF ctyp = AssertionError THEN "AssertionError"
    ELSE IF ctyp = NoAtom THEN "None"
    ELSE IF BytesAt(ctyp.data, 0, 4) = CC.stna THEN "OBJECT"
    ELSE IF BytesAt(ctyp.data, 0, 4) = CC.stpn THEN "PANORAMA"
    ELSE IF BytesAt(ctyp.data, 0, 4) = CC.qtvr THEN "V2"
    ELSE "None"

\* a classifier that wants an NAVG atom for an object movie
is_qtvr_navg(atom) ==
    LET ctyp == get_atom(atom, "ctypAtom") IN
    IF ctyp = AssertionError THEN "AssertionError"
    ELSE IF ctyp = NoAtom THEN "None"
    ELSE IF BytesAt(ctyp.data, 0, 4) = CC.stna /\ Len(get_atoms(atom, "NAVGAtom")) = 1
    THEN "OBJECT"
    ELSE IF BytesAt(ctyp.data, 0, 4) \in {CC.stpn, CC.STpn} THEN "PANORAMA"
    ELSE IF BytesAt(ctyp.data, 0, 4) = CC.qtvr THEN "V2"
    ELSE "None"

\* is_qtvr
is_qtvr(atom) ==
    LET ctyp == get_atom(atom, "ctypAtom") IN
    IF ctyp = AssertionError THEN "AssertionError"
    ELSE IF ctyp = NoAtom THEN "None"
    ELSE LET controller_id == BytesAt(ctyp.data, 0, 4) IN
         IF controller_id = CC.stna THEN "OBJECT"
         ELSE IF controller_id \in {CC.stpn, CC.STpn} THEN "PANORAMA"
         ELSE IF controller_id = CC.qtvr THEN "V2"
         ELSE "None"

----------------------------------------------------------------------------
(* Movie files: the bytes main is run on *)

U32(n) == <<(n \div 16777216) % 256, (n \div 65536) % 256, (n \div 256) % 256, n % 256>>

U16(n) == <<(n \div 256) % 256, n % 256>>

Zeros(n) == [i \in 1 .. n |-> 0]

RECURSIVE Flatten(_)
Flatten(ss) == IF ss = <<>> THEN <<>> ELSE Head(ss) \o Flatten(Tail(ss))

\* an atom: size (header included), type, payload
Atom(type, payload) == U32(Len(payload) + 8) \o type \o payload

\* tkhd: track_id at 0x0c, track_width at 0x4c, track_height at 0x50 (16.16)
TkhdBytes(id, w, h) ==
    Atom(CC.tkhd, Zeros(12) \o U32(id) \o Zeros(60) \o U32(w * 65536) \o U32(h * 65536))

\* stsd with one video sample description: depth at 0x4A of the entry
StsdBytes(fmt, depth) ==
    Atom(CC.stsd, Zeros(4) \o U32(1) \o Atom(fmt, Zeros(74) \o U16(depth) \o U16(65535)))

\* stsd with one panorama sample description
PanoStsdBytes(scene, lores, hotspot, nx, ny, hx, hy) ==
    Atom(CC.stsd, Zeros(4) \o U32(1) \o
         Atom(CC.pano, Zeros(12) \o U32(scene) \o U32(lores) \o Zeros(24) \o U32(hotspot)
                       \o Zeros(74) \o U16(nx) \o U16(ny) \o Zeros(12) \o U16(hx) \o U16(hy)
                       \o U16(8)))

StscBytes(table) ==
    Atom(CC.stsc, Zeros(4) \o U32(Len(table)) \o
         Flatten([i \in 1 .. Len(table) |-> U32(table[i][1]) \o U32(table[i][2]) \o U32(1)]))

\* stsz: sample_size at 0x04, number_of_entries at 0x08, the table at 0x0C
StszBytes(ssize, sizes) ==
    Atom(CC.stsz, Zeros(4) \o U32(ssize) \o U32(Len(sizes)) \o
         Flatten([i \in 1 .. Len(sizes) |-> U32(sizes[i])]))

StcoBytes(offsets) ==
    Atom(CC.stco, Zeros(4) \o U32(Len(offsets)) \o
         Flatten([i \in 1 .. Len(offsets) |-> U32(offsets[i])]))

\* a video track: tkhd, edts, mdia / minf / (dinf, stbl)
VideoTrak(t) ==
    Atom(CC.trak,
         TkhdBytes(t.id, t.w, t.h)
         \o Atom(CC.edts, Atom(CC.elst, Zeros(8)))
         \o Atom(CC.mdia,
                 Atom(CC.mdhd, Zeros(24))
                 \o Atom(CC.minf,
                         Atom(CC.vmhd, Zeros(12))
                         \o Atom(CC.dinf, Atom(CC.dref, Zeros(8)))
                         \o Atom(CC.stbl,
                                 StsdBytes(t.fmt, 24) \o StscBytes(t.runs)
                                 \o StszBytes(t.ssize, t.sizes) \o StcoBytes(t.offsets)))))

\* a panorama track: tkhd, mdia / minf / (gmhd / (gmin, STpn / pInf), stbl / stsd)
PanoTrak(t) ==
    Atom(CC.trak,
         TkhdBytes(t.id, 0, 0)
         \o Atom(CC.mdia,
                 Atom(CC.mdhd, Zeros(24))
                 \o Atom(CC.minf,
                         Atom(CC.gmhd,
                              Atom(CC.gmin, Zeros(16))
                              \o Atom(CC.STpn, Atom(CC.pInf, Zeros(12))))
                         \o Atom(CC.stbl,
                                 PanoStsdBytes(t.scene, t.lores, t.hotspot, t.nx, t.ny,
                                               t.hx, t.hy)))))

\* NAVG: columns at 0x02, rows at 0x04, 48 bytes
NavgBytes(ncols, nrows) ==
    Atom(CC.NAVG, U16(1) \o U16(ncols) \o U16(nrows) \o Zeros(42))

\* udta: ctyp atoms, NAVG atoms, WLOC, and the optional 32-bit zero that ends the list
UdtaBytes(ctyps, navgs, terminated) ==
    Atom(CC.udta,
         Flatten([i \in 1 .. Len(ctyps) |-> Atom(CC.ctyp, ctyps[i])])
         \o Flatten([i \in 1 .. navgs |-> NavgBytes(2, 1)])
         \o Atom(CC.WLOC, Zeros(4))
         \o (IF terminated THEN Zeros(4) ELSE <<>>))

\* the sample data of a movie: byte i of the data is 100 + i
SampleData(n) == [i \in 1 .. n |-> 100 + i]

InsertAt(seq, k, x) == SubSeq(seq, 1, k) \o <<x>> \o SubSeq(seq, k + 1, Len(seq))

NoInsert == [where |-> "none", k |-> 0, atom |-> <<>>]

\* one track of a movie, its chunk offsets counted from the start of the sample data
TrakBytes(t, base) ==
    IF t.pano
    THEN PanoTrak(t)
    ELSE VideoTrak([id |-> t.id, w |-> t.w, h |-> t.h, fmt |-> t.fmt, runs |-> t.runs,
                    ssize |-> t.ssize, sizes |-> t.sizes,
                    offsets |-> [i \in 1 .. Len(t.rel) |-> base + t.rel[i]]])

\* the children of moov: mvhd, the tracks, udta
MoovKids(m, base) ==
    <<Atom(CC.mvhd, Zeros(100))>>
    \o [i \in 1 .. Len(m.traks) |-> TrakBytes(m.traks[i], base)]
    \o <<UdtaBytes(m.ctyps, m.navgs, m.terminated)>>

\* where the sample data start in the file as it was written
DataStart(m) ==
    IF m.mdatFirst THEN 8 ELSE Len(Atom(CC.moov, Flatten(MoovKids(m, 0)))) + 8

\* the bytes of movie m, with one more atom put among the children of moov or at
\* top level: the chunk offsets stay as they were written
FileBytes(m, ins) ==
    LET kids == MoovKids(m, DataStart(m))
        moov == Atom(CC.moov, Flatten(IF ins.where = "moov"
                                      THEN InsertAt(kids, ins.k, ins.atom)
                                      ELSE kids))
        mdat == Atom(CC.mdat, SampleData(m.datalen))
        top == IF m.mdatFirst THEN <<mdat, moov>> ELSE <<moov, mdat>>
    IN
    Flatten(IF ins.where = "top" THEN InsertAt(top, ins.k, ins.atom) ELSE top)

----------------------------------------------------------------------------
(* main: parse_file, is_qtvr, the handlers *)

\* the with-block of parse_file: qt = QuickTime(f.read())
ParseFile ==
    /\ pc = "parse"
    /\ LET r == QuickTime(file) IN
       /\ UNKNOWN_FOURCC' = UNKNOWN_FOURCC \cup r.unknown
       /\ IF r.ok
          THEN /\ qt' = r.tree
               /\ pc' = "main"
               /\ UNCHANGED <<exit_status, err, movie>>
          ELSE /\ Terminate(1, "MalformedAtom")
               /\ UNCHANGED qt
    /\ UNCHANGED <<dvars, file, pristine, stdout, qtype, calls, args, locals, effects>>

\* main, line 236: the subject of the match statement
Classify ==
    /\ pc = "main"
    /\ qtype' = is_qtvr(qt)
    /\ IF is_qtvr(qt) = "AssertionError"
       THEN Terminate(1, "AssertionError")
       ELSE /\ pc' = "match"
            /\ UNCHANGED <<exit_status, err, movie>>
    /\ UNCHANGED <<dvars, file, pristine, stdout, qt, UNKNOWN_FOURCC, calls, args, locals, effects>>

\* a V2 movie reported as a failure
ReportV2Fails ==
    /\ pc = "match"
    /\ qtype = "V2"
    /\ stdout' = Append(stdout, "Can't handle QTVR2 or later")
    /\ pc' = "exit"
    /\ exit_status' = 1
    /\ UNCHANGED <<dvars, err, file, pristine, qt, UNKNOWN_FOURCC, qtype, calls, mvars>>

\* main, lines 243-244
ReportV2 ==
    /\ pc = "match"
    /\ qtype = "V2"
    /\ stdout' = Append(stdout, "Can't handle QTVR2 or later")
    /\ pc' = "done"
    /\ exit_status' = 0
    /\ UNCHANGED <<dvars, err, file, pristine, qt, UNKNOWN_FOURCC, qtype, calls, mvars>>

\* main, lines 245-246
ReportNotQtvr ==
    /\ pc = "match"
    /\ qtype = "None"
    /\ stdout' = Append(stdout, "Not a QTVR 1 movie")
    /\ pc' = "done"
    /\ exit_status' = 0
    /\ UNCHANGED <<dvars, err, file, pristine, qt, UNKNOWN_FOURCC, qtype, calls, mvars>>

\* a create_mosaic call is made: its arguments are bound
Call(name, ncols, nrows, trak, angle) ==
    /\ export_name' = name
    /\ columns' = ncols
    /\ rows' = nrows
    /\ trak_atom' = trak
    /\ rotate' = angle
    /\ pc' = "create_mosaic"
    /\ UNCHANGED <<exit_status, err, movie>>

\* main, lines 237-239, and handle_object_movies up to its create_mosaic call.  The
\* NAVG atom is a Block out of get_atoms; whether a Block answers .obj is decided
\* outside this repository, so both outcomes are taken
HandleObjectMovies ==
    /\ pc = "match"
    /\ qtype = "OBJECT"
    /\ stdout' = Append(stdout, "detected: object movie")
    /\ LET navg_list == get_atoms(qt, "NAVGAtom") IN
       IF Len(navg_list) # 1
       THEN /\ Terminate(1, "is object movie, but wrong number of NAVGatoms")
            /\ UNCHANGED args
       ELSE \E has_obj \in BOOLEAN :
            IF ~has_obj
            THEN /\ Terminate(1, "AttributeError")
                 /\ UNCHANGED args
            ELSE IF get_atom(qt, "trakAtom") = AssertionError
            THEN /\ Terminate(1, "AssertionError")
                 /\ UNCHANGED args
            ELSE Call("mosaic-FILE", U16At(navg_list[1].data, 2), U16At(navg_list[1].data, 4),
                      get_atom(qt, "trakAtom"), 0)
    /\ UNCHANGED <<dvars, file, pristine, qt, UNKNOWN_FOURCC, qtype, calls, locals, effects>>

\* mrcrowbar.utils.to_uint32_be
to_uint32_be(n) == U32(n)

\* bytes.decode("ASCII"): the bytes, or None on UnicodeDecodeError
DecodeAscii(bytes) == IF \A i \in 1 .. Len(bytes) : bytes[i] < 128 THEN bytes ELSE None

\* BlockField tables of stsc, stco and stsz
SampleToChunkTable(data) ==
    [i \in 1 .. U32At(data, 4) |->
        <<U32At(data, 8 + 12 * (i - 1)), U32At(data, 12 + 12 * (i - 1))>>]

ChunkOffsetTable(data) == [i \in 1 .. U32At(data, 4) |-> I32At(data, 8 + 4 * (i - 1))]

SampleSizeTable(data) == [i \in 1 .. U32At(data, 8) |-> I32At(data, 12 + 4 * (i - 1))]

\* x.attr on what get_atom returned
Missing(atom) == atom = NoAtom \/ atom = AssertionError

\* create_mosaic, lines 79-94 and the table reads of lines 107-115: what the track
\* gives, or the exception raised on the way
ResolveTrack(trak) ==
    LET trak_header == get_atom(trak, "tkhdAtom")
        sample_table == get_atom(trak, "stblAtom")
        stsz == get_atom(sample_table, "stszAtom")
        stco == get_atom(sample_table, "stcoAtom")
        stsd == get_atom(sample_table, "stsdAtom")
        stsc == get_atom(sample_table, "stscAtom")
        Raise(e) == [raised |-> e, width |-> 0, height |-> 0, data_format |-> <<>>,
                     sizes |-> <<>>, offsets |-> <<>>, stsc |-> NoAtom]
    IN
    IF trak_header = AssertionError THEN Raise("AssertionError")
    ELSE IF trak_header = NoAtom THEN Raise("AttributeError")
    ELSE IF sample_table = AssertionError THEN Raise("AssertionError")
    ELSE IF stsz = AssertionError THEN Raise("AssertionError")
    ELSE IF stsz = NoAtom THEN Raise("AttributeError")
    ELSE IF stco = AssertionError THEN Raise("AssertionError")
    ELSE IF stco = NoAtom THEN Raise("AttributeError")
    ELSE IF stsd = AssertionError THEN Raise("AssertionError")
    ELSE IF stsd = NoAtom THEN Raise("AttributeError")
    ELSE IF Len(stsd.data) < 16 \/ U32At(stsd.data, 4) = 0 THEN Raise("IndexError")
    ELSE IF DecodeAscii(to_uint32_be(U32At(stsd.data, 12))) = None
    THEN Raise("UnicodeDecodeError")
    ELSE IF stsd.atoms = <<>> THEN Raise("IndexError")
    ELSE IF ~IsInstance(stsd.atoms[1], "VideoSampleDescriptionTableEntry")
    THEN Raise("AttributeError")
    ELSE [raised |-> "",
          width |-> FixedIntAt(trak_header.data, 76),
          height |-> FixedIntAt(trak_header.data, 80),
          data_format |-> DecodeAscii(to_uint32_be(U32At(stsd.data, 12))),
          sizes |-> SampleSizeTable(stsz.data),
          offsets |-> ChunkOffsetTable(stco.data),
          stsc |-> stsc]

\* create_mosaic is entered: lines 79-94.  The stsc atom is looked up at line 107,
\* after the codec check of lines 96-100; when it is missing and the codec is
\* supported the AttributeError of line 108 ends the run
CreateMosaicEnter ==
    /\ pc = "create_mosaic"
    /\ LET r == ResolveTrack(trak_atom) IN
       IF r.raised # ""
       THEN /\ Terminate(1, r.raised)
            /\ UNCHANGED <<width, height, data_format, sample_chunk_table, chunk_offsets,
                           sample_sizes>>
       ELSE /\ width' = r.width
            /\ height' = r.height
            /\ data_format' = r.data_format
            /\ chunk_offsets' = r.offsets
            /\ sample_sizes' = r.sizes
            /\ IF Missing(r.stsc) /\ FormatsGet(r.data_format) # "None"
               THEN /\ Terminate(1, IF r.stsc = NoAtom THEN "AttributeError"
                                    ELSE "AssertionError")
                    /\ UNCHANGED sample_chunk_table
               ELSE /\ sample_chunk_table' = IF Missing(r.stsc) THEN <<>>
                                             ELSE SampleToChunkTable(r.stsc.data)
                    /\ pc' = "setup"
                    /\ UNCHANGED <<exit_status, err, movie>>
    /\ UNCHANGED <<dvars, pvars, args, sample_to_chunk, index, chunk_id, next_chunk_id,
                   samples_per_chunk, sample_id, it, sample_offset, image_id, dst, effects>>

\* tkhd.track_id of a track
TrackId(track) == U32At(get_atom(track, "tkhdAtom").data, 12)

\* handle_panorama_movies, line 178: {track_id: track}, a later track replacing an
\* earlier one of the same id
TrackDict(tracks) ==
    [id \in { TrackId(tracks[i]) : i \in 1 .. Len(tracks) } |->
        tracks[CHOOSE i \in 1 .. Len(tracks) :
                   /\ TrackId(tracks[i]) = id
                   /\ \A j \in i + 1 .. Len(tracks) : TrackId(tracks[j]) # id]]

\* get_pano_track: index of the first track that holds a gmhd atom, 0 for None,
\* -1 when get_atom's assertion fails before one is found
RECURSIVE PanoTrackFrom(_, _)
PanoTrackFrom(tracks, i) ==
    IF i > Len(tracks) THEN 0
    ELSE IF get_atom(tracks[i], "gmhdAtom") = AssertionError THEN -1
    ELSE IF get_atom(tracks[i], "gmhdAtom") # NoAtom THEN i
    ELSE PanoTrackFrom(tracks, i + 1)

get_pano_track(tracks) == PanoTrackFrom(tracks, 1)

\* handle_panorama_movies, lines 177-193: the panorama sample description and the
\* track dictionary, or the exception raised on the way
ResolvePanorama(tracks) ==
    LET Raise(e) == [raised |-> e, sd |-> <<>>, d |-> EmptyDict]
        bad == { i \in 1 .. Len(tracks) : Missing(get_atom(tracks[i], "tkhdAtom")) }
        first_bad == CHOOSE i \in bad : \A j \in bad : i <= j
        pano == get_pano_track(tracks)
        stsd == get_atom(tracks[pano], "stsdAtom")
    IN
    IF bad # {}
    THEN Raise(IF get_atom(tracks[first_bad], "tkhdAtom") = NoAtom THEN "AttributeError"
               ELSE "AssertionError")
    ELSE IF pano = -1 THEN Raise("AssertionError")
    ELSE IF pano = 0 THEN Raise("Not a panoramic track")
    ELSE IF stsd = AssertionError THEN Raise("AssertionError")
    ELSE IF stsd = NoAtom THEN Raise("AttributeError")
    ELSE IF Len(stsd.data) < 16 \/ U32At(stsd.data, 4) = 0 \/ stsd.atoms = <<>>
    THEN Raise("IndexError")
    ELSE IF ~IsInstance(stsd.atoms[1], "PanoSampleDescriptionTableEntry")
    THEN Raise("AttributeError")
    ELSE LET e == stsd.atoms[1].data
             sd == [sceneTrackID |-> I32At(e, 12),
                    loResSceneTrackID |-> I32At(e, 16),
                    hotSpotTrackID |-> I32At(e, 44),
                    sceneNumFramesX |-> I16At(e, 122),
                    sceneNumFramesY |-> I16At(e, 124),
                    hotSpotNumFramesX |-> I16At(e, 138),
                    hotSpotNumFramesY |-> I16At(e, 140)]
             d == TrackDict(tracks)
         IN
         IF sd.sceneTrackID \notin DOMAIN d \/ sd.hotSpotTrackID \notin DOMAIN d
         THEN Raise("KeyError")
         ELSE [raised |-> "", sd |-> sd, d |-> d]

\* the create_mosaic calls handle_panorama_movies makes after the scene track's:
\* lines 200-213 and 215-227
LaterCalls(sd) ==
    (IF sd.loResSceneTrackID # 0
     THEN <<[name |-> "FILE-loressceneTrack", ncols |-> Max(sd.sceneNumFramesX \div 2, 1),
             nrows |-> sd.sceneNumFramesY \div 2, key |-> sd.loResSceneTrackID]>>
     ELSE <<>>)
    \o (IF sd.hotSpotTrackID # 0
        THEN <<[name |-> "FILE-hotspotTrack", ncols |-> sd.hotSpotNumFramesX,
                nrows |-> sd.hotSpotNumFramesY, key |-> sd.hotSpotTrackID]>>
        ELSE <<>>)

\* main, lines 240-242, and handle_panorama_movies up to its first create_mosaic
\* call.  rows and columns go to create_mosaic in the places of columns and rows.
\* Each track is a Block out of get_atoms; whether a Block answers .obj is decided
\* outside this repository, so both outcomes are taken
HandlePanoramaMovies ==
    /\ pc = "match"
    /\ qtype = "PANORAMA"
    /\ stdout' = Append(stdout, "detected: panorama movie")
    /\ LET tracks == get_atoms(qt, "trakAtom")
           r == ResolvePanorama(tracks)
       IN
       \E has_obj \in BOOLEAN :
           IF tracks # <<>> /\ ~has_obj
           THEN /\ Terminate(1, "AttributeError")
                /\ UNCHANGED <<args, calls>>
           ELSE IF r.raised # ""
           THEN /\ Terminate(1, r.raised)
                /\ UNCHANGED <<args, calls>>
           ELSE /\ Call("FILE-sceneTrack", r.sd.sceneNumFramesX, r.sd.sceneNumFramesY,
                        r.d[r.sd.sceneTrackID], -90)
                /\ calls' = LaterCalls(r.sd)
    /\ UNCHANGED <<dvars, file, pristine, qt, UNKNOWN_FOURCC, qtype, locals, effects>>

\* create_mosaic has returned to its handler: the handler makes its next call, or
\* returns to main, which returns
HandlerReturn ==
    /\ pc = "returned"
    /\ IF calls = <<>>
       THEN /\ pc' = "done"
            /\ exit_status' = 0
            /\ UNCHANGED <<err, movie, args, calls>>
       ELSE LET c == Head(calls)
                d == TrackDict(get_atoms(qt, "trakAtom"))
            IN
            /\ calls' = Tail(calls)
            /\ IF c.key \notin DOMAIN d
               THEN /\ Terminate(1, "KeyError")
                    /\ UNCHANGED args
               ELSE Call(c.name, c.ncols, c.nrows, d[c.key], -90)
    /\ UNCHANGED <<dvars, file, pristine, stdout, qt, UNKNOWN_FOURCC, qtype, locals, effects>>

----------------------------------------------------------------------------
(* The movies main is run on *)

Trak0 ==
    [pano |-> FALSE, id |-> 1, w |-> 2, h |-> 1, fmt |-> CC.rpza, runs |-> <<<<1, 2>>>>,
     ssize |-> 0, sizes |-> <<2, 2>>, rel |-> <<0>>, scene |-> 0, lores |-> 0, hotspot |-> 0,
     nx |-> 0, ny |-> 0, hx |-> 0, hy |-> 0]

\* an object movie: one rpza track of two samples in one chunk, a 2 x 1 grid
Movie0 ==
    [ctyps |-> <<CC.stna>>, navgs |-> 1, terminated |-> FALSE, mdatFirst |-> TRUE,
     traks |-> <<Trak0>>, datalen |-> 2 * ChunkGap]

\* payloads of the ctyp atoms of a movie: none, one of each controller id, an id of
\* another case, a short and a long payload, two ctyp atoms
CtypLists ==
    { <<>>, <<CC.stna>>, <<CC.stpn>>, <<CC.STpn>>, <<CC.qtvr>>, <<CC.junk>>,
      <<<<83, 84, 78, 65>>>>, <<<<115, 116, 110>>>>, <<CC.qtvr \o <<0>>>>,
      <<CC.stna, CC.qtvr>> }

ClassMovies ==
    { [Movie0 EXCEPT !.ctyps = c, !.navgs = n, !.terminated = z, !.mdatFirst = f]
      : c \in CtypLists, n \in 0 .. MaxNavg, z \in BOOLEAN, f \in BOOLEAN }

\* object movies by codec, by stsz layout and by track list
TrackMovies ==
    { [Movie0 EXCEPT !.traks = <<[Trak0 EXCEPT !.fmt = f]>>]
      : f \in { CC.rle, CC.cvid, CC.smc, CC.raw, CC.pano, <<114, 255, 122, 97>> } }
    \cup { [Movie0 EXCEPT !.traks = <<[Trak0 EXCEPT !.runs = <<<<1, 2>>>>,
                                                   !.sizes = <<2, 2, 2, 2>>,
                                                   !.rel = <<0, ChunkGap>>]>>],
           [Movie0 EXCEPT !.traks = <<[Trak0 EXCEPT !.ssize = 2, !.sizes = <<1, 1>>]>>],
           [Movie0 EXCEPT !.traks = <<>>],
           [Movie0 EXCEPT !.traks = <<Trak0, [Trak0 EXCEPT !.id = 2]>>] }

\* panorama movies: the panorama track, the scene track it names, and a third track;
\* the scene diced 1 x 2, and 1 x 1 and 2 x 1 with a lo-res and a hot-spot track
PanoMovies ==
    { [Movie0 EXCEPT
         !.ctyps = <<c>>, !.mdatFirst = f, !.navgs = 0,
         !.traks = <<[Trak0 EXCEPT !.pano = TRUE, !.scene = 2, !.lores = lo, !.hotspot = hs,
                                   !.nx = 1, !.ny = 2, !.hx = 1, !.hy = 1],
                     [Trak0 EXCEPT !.id = 2],
                     [Trak0 EXCEPT !.id = third, !.rel = <<ChunkGap>>, !.fmt = fmt]>>]
      : c \in { CC.stpn, CC.STpn }, f \in BOOLEAN, lo \in { 0, 3, 9 }, hs \in { 0, 3, 9 },
        third \in { 0, 3 }, fmt \in { CC.rpza, CC.raw } }
    \cup { [Movie0 EXCEPT
              !.ctyps = <<CC.stpn>>, !.navgs = 0,
              !.traks = <<[Trak0 EXCEPT !.pano = TRUE, !.scene = 2, !.lores = 3,
                                        !.hotspot = 3, !.nx = nx, !.ny = 1, !.hx = 1,
                                        !.hy = 1],
                          [Trak0 EXCEPT !.id = 2],
                          [Trak0 EXCEPT !.id = 3, !.rel = <<ChunkGap>>]>>]
           : nx \in { 1, 2 } }

Movies == ClassMovies \cup TrackMovies \cup PanoMovies

\* types no CHUNK_MAP of moov or of the top level registers: ASCII, MacRoman
\* (0xA9 n a m, not UTF-8), two-byte UTF-8, a type registered in udta only, 0xFF
UnknownTypes ==
    { CC.xxxx, <<169, 110, 97, 109>>, <<195, 169, 97, 98>>, CC.ctyp,
      <<255, 255, 255, 255>> }

\* the movies an atom is put into
InsertBases ==
    { [Movie0 EXCEPT !.mdatFirst = f, !.ctyps = <<c>>] : f \in BOOLEAN, c \in { CC.stna, CC.qtvr } }

\* one well-formed atom of an unknown type among the children of moov or at top level
Inserts(m) ==
    IF m \notin InsertBases THEN {}
    ELSE { [where |-> "moov", k |-> k, atom |-> Atom(t, <<1, 2, 3>>)]
           : k \in 0 .. Len(m.traks) + 2, t \in UnknownTypes }
         \cup { [where |-> "top", k |-> k, atom |-> Atom(t, <<1, 2, 3>>)]
                : k \in 0 .. 2, t \in UnknownTypes }

\* files whose top level does not parse: a short tail, a 32-bit zero, a size below
\* 8, a size past the end of the file, each after a movie or after an atom of
\* unknown type
MalformedFiles ==
    { head \o tail
      : head \in { FileBytes(Movie0, NoInsert), Atom(CC.xxxx, <<1>>) },
        tail \in { <<0, 0, 0>>, Zeros(4), Zeros(8), U32(4) \o CC.free,
                   U32(100) \o CC.free \o <<1, 2>> } }

Init ==
    /\ pc = "parse"
    /\ exit_status = -1
    /\ err = ""
    /\ stdout = <<>>
    /\ qt = NoTree
    /\ UNKNOWN_FOURCC = {}
    /\ qtype = "unset"
    /\ calls = <<>>
    /\ trak_atom = NoTree
    /\ export_name = ""
    /\ columns = 0
    /\ rows = 0
    /\ rotate = 0
    /\ width = 0
    /\ height = 0
    /\ data_format = <<>>
    /\ sample_chunk_table = <<>>
    /\ chunk_offsets = <<>>
    /\ sample_sizes = <<>>
    /\ FreshLocals
    /\ NoDecoder
    /\ \/ \E m \in Movies : \E ins \in Inserts(m) \cup {NoInsert} :
              /\ file = FileBytes(m, ins)
              /\ pristine = FileBytes(m, NoInsert)
       \/ \E f \in MalformedFiles :
              /\ file = f
              /\ pristine = f

Next ==
    \/ ParseFile
    \/ Classify
    \/ ReportV2
    \/ ReportNotQtvr
    \/ HandleObjectMovies
    \/ HandlePanoramaMovies
    \/ CreateMosaicEnter
    \/ CreateMosaicSetup
    \/ RunEnter
    \/ ChunkExpand
    \/ OpenMovie
    \/ SampleStep
    \/ DecodeError
    \/ CreateMosaicReturn
    \/ HandlerReturn

Spec == Init /\ [][Next]_vars

----------------------------------------------------------------------------
(* Properties of the parser and of main (Spec) *)

\* the class whose CHUNK_MAP decides the children of an atom
MapOf(atom) == IF atom.klass = "stsdAtom" THEN "SampleDescriptionTable" ELSE atom.klass

\* every chunk of a tree, with the class whose CHUNK_MAP it was looked up in
RECURSIVE AllChunks(_)
AllChunks(atom) ==
    UNION { {[map |-> MapOf(atom), chunk |-> atom.atoms[i]]} \cup AllChunks(atom.atoms[i])
            : i \in 1 .. Len(atom.atoms) }

\* every container atom of a tree, the root included
Containers(tree) ==
    {tree} \cup { x.chunk : x \in { y \in AllChunks(tree) : y.chunk.klass \in ContainerKlasses } }

Parsed == qt # NoTree

\* a chunk kept as an opaque leaf: no children, its payload held as bytes
Opaque(c) == c.atoms = <<>> /\ c.klass \in {"Unknown", "GobbleAtom"}

Without(seq, i) == SubSeq(seq, 1, i - 1) \o SubSeq(seq, i + 1, Len(seq))

\* the places of Q whose removal leaves P
InsertedAt(Q, P) == { i \in 1 .. Len(Q) : Without(Q, i) = P }

\* the moov atoms of two trees that differ by one child (size apart, all else equal)
MoovGrown(a, b) ==
    /\ a.klass = "moovAtom"
    /\ b.klass = "moovAtom"
    /\ [a EXCEPT !.atoms = <<>>, !.size = 0] = [b EXCEPT !.atoms = <<>>, !.size = 0]
    /\ InsertedAt(a.atoms, b.atoms) # {}

\* tree t is tree p with one more chunk at top level or among the children of moov,
\* every other atom equal in kind, fields and order
SiblingsKept(t, p) ==
    \/ InsertedAt(t.atoms, p.atoms) # {}
    \/ /\ Len(t.atoms) = Len(p.atoms)
       /\ \E j \in 1 .. Len(t.atoms) :
              /\ MoovGrown(t.atoms[j], p.atoms[j])
              /\ \A i \in 1 .. Len(t.atoms) : i # j => t.atoms[i] = p.atoms[i]

\* the chunk t has and p has not, the file offset of its header, and the file
\* offset of the first atom the insertion changes (the moov it grows, or itself)
RECURSIVE SizesBefore(_, _)
SizesBefore(atoms, i) == IF i <= 1 THEN 0 ELSE atoms[i - 1].size + SizesBefore(atoms, i - 1)

InsertedChunk(t, p) ==
    IF InsertedAt(t.atoms, p.atoms) # {}
    THEN LET i == CHOOSE i \in InsertedAt(t.atoms, p.atoms) : TRUE IN
         [chunk |-> t.atoms[i], changed |-> SizesBefore(t.atoms, i)]
    ELSE LET j == CHOOSE j \in 1 .. Len(t.atoms) : MoovGrown(t.atoms[j], p.atoms[j])
             i == CHOOSE i \in InsertedAt(t.atoms[j].atoms, p.atoms[j].atoms) : TRUE
         IN
         [chunk |-> t.atoms[j].atoms[i], changed |-> SizesBefore(t.atoms, j)]

\* the FourCCs a set gains from a chunk of unknown type
Gained(c) == IF make_fourcc(c.id) = None THEN {} ELSE {make_fourcc(c.id)}

\* the image the i-th read of the run would have decoded from the movie as written
PristineImage(i) ==
    DecodedImage(Slice(pristine, reads[i][1], reads[i][1] + reads[i][2]), width, height)

Inserted == file # pristine /\ Parsed

----------------------------------------------------------------------------
(* C7: children and payload of a container *)

\* the sizes of the children of a container, each with its 8-byte header
ChildSizes(c) == SumSeq([i \in 1 .. Len(c.atoms) |-> c.atoms[i].size])

\* C7 (as claimed): in every container atom of the parsed tree the sizes of the
\* children sum to the container's size less 8, the udta atom like any other
C7_ChildrenTilePayload ==
    Parsed => \A c \in Containers(qt) : ChildSizes(c) = c.size - 8

\* C7: in every container atom of the parsed tree the sizes of the children and
\* the bytes left from a 32-bit zero on sum to the container's size less 8 (to the
\* length of the file for the root); bytes are left in udta atoms only, four or
\* more, and the first four are the zero that ended the child list
C7_ChildrenTileUpToTerminator ==
    Parsed =>
        /\ ChildSizes(qt) = Len(file)
        /\ \A c \in Containers(qt) :
              /\ ChildSizes(c) + c.left = c.size - 8
              /\ c.left # 0 => c.klass = "udtaAtom" /\ c.left >= 4

\* a udta atom with children and a 32-bit zero after them, in a tree whose other
\* containers are tiled by their children
C7_Witness ==
    /\ Parsed
    /\ \E c \in Containers(qt) :
          /\ c.klass = "udtaAtom"
          /\ Len(c.atoms) >= 2
          /\ c.left = 4
          /\ ChildSizes(c) = c.size - 12
    /\ \E c \in Containers(qt) :
          /\ c.klass = "stblAtom"
          /\ Len(c.atoms) = 4
          /\ ChildSizes(c) = c.size - 8

----------------------------------------------------------------------------
(* C8, C9: the classifier *)

\* the ctyp atoms of the parsed tree and the controller id of the first
Ctyps == get_atoms(qt, "ctypAtom")

CtypId == BytesAt(Ctyps[1].data, 0, 4)

Navgs == get_atoms(qt, "NAVGAtom")

\* is_qtvr has returned: with several ctyp atoms get_atom raises instead
Classified == qtype \notin {"unset", "AssertionError"}

\* C8: is_qtvr returns PANORAMA exactly when the id of the ctyp atom is 'stpn' or
\* 'STpn', V2 exactly when it is 'qtvr', and None when there is no ctyp atom or its
\* id is none of 'stna', 'stpn', 'STpn', 'qtvr'; NAVG atoms, tracks, the order of
\* moov and mdat and atoms of unknown type have no part in it
C8_ClassifiedByCtypAlone ==
    Classified =>
        /\ Len(Ctyps) <= 1
        /\ qtype = "PANORAMA" <=> (Ctyps # <<>> /\ CtypId \in {CC.stpn, CC.STpn})
        /\ qtype = "V2" <=> (Ctyps # <<>> /\ CtypId = CC.qtvr)
        /\ qtype = "None" <=>
               (Ctyps = <<>> \/ CtypId \notin {CC.stna, CC.stpn, CC.STpn, CC.qtvr})

\* a movie with id 'STpn' and two NAVG atoms is a panorama
C8_Witness ==
    /\ qtype = "PANORAMA"
    /\ Len(Ctyps) = 1
    /\ CtypId = CC.STpn
    /\ Len(Navgs) = 2

\* C9 (as claimed): a file is classified OBJECT if and only if its ctyp id is
\* 'stna' and the tree holds exactly one NAVG atom
C9_ObjectNeedsOneNavg ==
    Classified =>
        (qtype = "OBJECT" <=> (Ctyps # <<>> /\ CtypId = CC.stna /\ Len(Navgs) = 1))

\* C9: a file is classified OBJECT if and only if its ctyp id is 'stna'; with no
\* NAVG atom or with several it is still classified OBJECT, and
\* handle_object_movies then ends the run with status 1 before create_mosaic is
\* entered: no canvas, no read, no PNG
C9_ObjectByCtypThenNavgCheck ==
    Classified =>
        /\ qtype = "OBJECT" <=> (Ctyps # <<>> /\ CtypId = CC.stna)
        /\ (qtype = "OBJECT" /\ Len(Navgs) # 1) =>
               /\ pc \in {"match", "exit"}
               /\ pc = "exit" =>
                      /\ exit_status = 1
                      /\ err = "is object movie, but wrong number of NAVGatoms"
                      /\ stdout = <<"detected: object movie">>
               /\ dst = NoImage
               /\ trak_atom = NoTree
               /\ reads = <<>>
               /\ saved = <<>>

\* an 'stna' movie with two NAVG atoms was classified OBJECT and turned down by
\* handle_object_movies
C9_Witness ==
    /\ qtype = "OBJECT"
    /\ CtypId = CC.stna
    /\ Len(Navgs) = 2
    /\ pc = "exit"
    /\ exit_status = 1
    /\ err = "is object movie, but wrong number of NAVGatoms"

----------------------------------------------------------------------------
(* C10: movies main does not handle *)

\* C10: when is_qtvr returned V2 or None, main prints its report and returns with
\* exit status 0; create_mosaic is never entered, so no track is resolved, no
\* canvas made, nothing read from the movie and no PNG saved
C10_UnhandledMoviesReturnZero ==
    qtype \in {"V2", "None"} =>
        /\ pc \in {"match", "done"}
        /\ pc = "match" => exit_status = -1 /\ stdout = <<>>
        /\ pc = "done" =>
               /\ exit_status = 0
               /\ err = ""
               /\ stdout = IF qtype = "V2" THEN <<"Can't handle QTVR2 or later">>
                           ELSE <<"Not a QTVR 1 movie">>
        /\ trak_atom = NoTree
        /\ dst = NoImage
        /\ movie = "none"
        /\ reads = <<>>
        /\ saved = <<>>

\* a 'qtvr' movie with a track and an NAVG atom was reported and main returned
C10_Witness ==
    /\ pc = "done"
    /\ qtype = "V2"
    /\ exit_status = 0
    /\ stdout = <<"Can't handle QTVR2 or later">>
    /\ Len(Navgs) = 1
    /\ get_atoms(qt, "trakAtom") # <<>>
    /\ saved = <<>>

----------------------------------------------------------------------------
(* C11, C12: failures of create_mosaic *)

\* no PNG of the track create_mosaic is at has been saved
NothingSavedOfTrack == \A i \in 1 .. Len(saved) : saved[i].name[2] # export_name

\* C11: create_mosaic goes on past its codec lookup exactly for the data formats
\* 'rpza', 'rle ', 'cvid' and 'smc '; for any other FourCC the run ends there with
\* exit status 1, and from the entry of create_mosaic to that point no canvas is
\* made, the movie is not opened, nothing is read or decoded and no PNG of the
\* track is saved
C11_UnsupportedCodecFailsEarly ==
    /\ [][/\ pc = "create_mosaic" =>
                /\ UNCHANGED <<dst, reads, images, pastes, saved>>
                /\ movie' # "open"
          /\ pc = "setup" =>
                IF data_format \in {CC.rpza, CC.rle, CC.cvid, CC.smc}
                THEN /\ err' # "unsupported codec"
                     /\ pc' = "exit" \/ dst' = NewImage(width * columns, height * rows)
                ELSE /\ pc' = "exit"
                     /\ exit_status' = 1
                     /\ err' = "unsupported codec"
                     /\ UNCHANGED <<dst, reads, images, pastes, saved>>
                     /\ movie' # "open"]_vars
    /\ [](err = "unsupported codec" =>
              /\ pc = "exit"
              /\ exit_status = 1
              /\ data_format \notin {CC.rpza, CC.rle, CC.cvid, CC.smc}
              /\ NothingSavedOfTrack)

\* the lo-res track of a panorama is 'raw ': the scene mosaic was saved, the run
\* ended in the lo-res call with nothing of that track saved
C11_Witness ==
    /\ err = "unsupported codec"
    /\ exit_status = 1
    /\ qtype = "PANORAMA"
    /\ data_format = CC.raw
    /\ export_name = "FILE-loressceneTrack"
    /\ Len(saved) = 1
    /\ saved[1].name = PngName(0, "FILE-sceneTrack")
    /\ Len(reads) = 2

\* C12: when a run has ended on a failure (a sample the codec rejects, a sample
\* id without chunk, an unsupported codec, a missing track) its exit status is not
\* 0 and it has saved no PNG, neither an earlier page of the track nor the mosaic
\* of an earlier track
C12_NoPngOnFailure ==
    pc = "exit" => exit_status # 0 /\ saved = <<>>

----------------------------------------------------------------------------
(* C13: the stsz atom of the track create_mosaic is at *)

\* create_mosaic has resolved its track and not failed since
InCreateMosaic == pc \in {"setup", "for_run", "while_chunk", "open", "loop", "returned"}

StszOfTrack == get_atom(get_atom(trak_atom, "stblAtom"), "stszAtom")

\* C13: with a nonzero stsz.sample_size every sample has that size and there are
\* number_of_entries samples; with sample_size zero the sizes are those of the
\* per-sample table
C13_ConstantSampleSize ==
    InCreateMosaic =>
        LET sample_size == U32At(StszOfTrack.data, 4)
            number_of_entries == U32At(StszOfTrack.data, 8)
        IN
        sample_sizes = IF sample_size # 0
                       THEN [i \in 1 .. number_of_entries |-> sample_size]
                       ELSE SampleSizeTable(StszOfTrack.data)

----------------------------------------------------------------------------
(* C14: the tracks of a panorama *)

Tracks == get_atoms(qt, "trakAtom")

TrackIds == { TrackId(Tracks[i]) : i \in 1 .. Len(Tracks) }

\* the sample description of the panorama track
PanoEntry == get_atom(Tracks[get_pano_track(Tracks)], "stsdAtom").atoms[1].data

\* handle_panorama_movies has been entered on a movie with a panorama track whose
\* scene track exists, and no track carries id 0
PanoramaHandled ==
    /\ qtype = "PANORAMA"
    /\ pc \notin {"main", "match"}
    /\ get_pano_track(Tracks) > 0
    /\ I32At(PanoEntry, 12) \in TrackIds
    /\ 0 \notin TrackIds

\* place of a mosaic in the order scene, lo-res, hot-spot
Rank(name) ==
    CASE name = "FILE-sceneTrack" -> 1
      [] name = "FILE-loressceneTrack" -> 2
      [] name = "FILE-hotspotTrack" -> 3
      [] OTHER -> 0

\* C14: in a panorama with hotSpotTrackID = 0 the scene mosaic is still made and
\* only the hot-spot mosaic is skipped; with loResSceneTrackID = 0 only the lo-res
\* mosaic is skipped; mosaics are made in the order scene, lo-res, hot-spot.  (A
\* run that ends on the .obj of a track is left aside.)
C14_ZeroIdSkipsOnlyThatTrack ==
    (PanoramaHandled /\ err # "AttributeError") =>
        /\ I32At(PanoEntry, 44) = 0 =>
               /\ export_name \in {"FILE-sceneTrack", "FILE-loressceneTrack"}
               /\ pc = "done" => \E i \in 1 .. Len(saved) : saved[i].name[2] = "FILE-sceneTrack"
        /\ I32At(PanoEntry, 16) = 0 =>
               /\ export_name \in {"FILE-sceneTrack", "FILE-hotspotTrack"}
               /\ pc = "done" => \E i \in 1 .. Len(saved) : saved[i].name[2] = "FILE-sceneTrack"
        /\ \A i, j \in 1 .. Len(saved) : i < j => Rank(saved[i].name[2]) <= Rank(saved[j].name[2])

----------------------------------------------------------------------------
(* C15: get_atom *)

Kinds == {"trakAtom", "tkhdAtom", "stblAtom", "stszAtom", "ctypAtom", "NAVGAtom", "gmhdAtom"}

\* get_atom ended the run before any create_mosaic call
AssertedBeforeMosaic == pc = "exit" /\ err = "AssertionError" /\ export_name = ""

\* C15 (as claimed): get_atom returns the atom of the kind when there is exactly
\* one, None when there is none, and does not fail when there are several
C15_GetAtomNeverFails ==
    Parsed =>
        \A c \in Containers(qt), K \in Kinds :
            /\ Len(get_atoms(c, K)) = 1 => get_atom(c, K) = get_atoms(c, K)[1]
            /\ get_atoms(c, K) = <<>> => get_atom(c, K) = NoAtom
            /\ get_atom(c, K) # AssertionError

\* C15: get_atom returns the atom of the kind when there is exactly one and None
\* when there is none; when there are several its own assertion fails.  A movie
\* with two ctyp atoms ends in is_qtvr, an object movie with two tracks ends in
\* handle_object_movies, both on that assertion and before create_mosaic
C15_GetAtomAssertsUniqueness ==
    /\ Parsed =>
          \A c \in Containers(qt), K \in Kinds :
              /\ Len(get_atoms(c, K)) = 1 => get_atom(c, K) = get_atoms(c, K)[1]
              /\ get_atoms(c, K) = <<>> => get_atom(c, K) = NoAtom
              /\ Len(get_atoms(c, K)) > 1 => get_atom(c, K) = AssertionError
    /\ (pc \notin {"parse", "main"} /\ Parsed /\ Len(Ctyps) > 1) =>
          qtype = "AssertionError" /\ AssertedBeforeMosaic
    /\ (qtype = "OBJECT" /\ pc # "match" /\ Len(Navgs) = 1 /\ Len(Tracks) > 1) =>
          AssertedBeforeMosaic \/ err = "AttributeError"

\* an object movie with two tracks was turned down by get_atom's assertion, which
\* let the single tkhd of a track and the absent gmhd through
C15_Witness ==
    /\ AssertedBeforeMosaic
    /\ qtype = "OBJECT"
    /\ Len(Tracks) = 2
    /\ get_atom(qt, "trakAtom") = AssertionError
    /\ get_atom(Tracks[1], "tkhdAtom").klass = "tkhdAtom"
    /\ get_atom(qt, "gmhdAtom") = NoAtom

----------------------------------------------------------------------------
(* FixedFractionField and color_to_rbg, each applied to one input *)

\* main is not running: the variables of main and create_mosaic at rest
NoMain ==
    /\ exit_status = -1
    /\ err = ""
    /\ stdout = <<>>
    /\ qt = NoTree
    /\ UNKNOWN_FOURCC = {}
    /\ qtype = "unset"
    /\ calls = <<>>
    /\ trak_atom = NoTree
    /\ export_name = ""
    /\ columns = 0
    /\ rows = 0
    /\ rotate = 0
    /\ width = 0
    /\ height = 0
    /\ data_format = <<>>
    /\ sample_chunk_table = <<>>
    /\ chunk_offsets = <<>>
    /\ sample_sizes = <<>>
    /\ FreshLocals

RECURSIVE Gcd(_, _)
Gcd(a, b) == IF b = 0 THEN a ELSE Gcd(b, a % b)

\* fractions.Fraction(n, d), d > 0: in lowest terms
Fraction(n, d) ==
    LET g == Gcd(d, n % d) IN [num |-> n \div g, den |-> d \div g]

RECURSIVE Log2(_)
Log2(d) == IF d <= 1 THEN 0 ELSE 1 + Log2(d \div 2)

\* float(q) for q = num / 2^k: the double m * 2^e with m odd (or 0), exact while
\* m has no more than 53 bits
RECURSIVE FloatOf(_, _)
FloatOf(m, e) ==
    IF m = 0 THEN [m |-> 0, e |-> 0]
    ELSE IF m % 2 = 0 THEN FloatOf(m \div 2, e + 1)
    ELSE [m |-> m, e |-> e]

float(q) == FloatOf(q.num, -Log2(q.den))

\* FixedFractionField.get_from_buffer: struct.unpack wants exactly 4 bytes
FixedFractionField(buffer, offset) ==
    IF Len(Slice(buffer, offset, offset + 4)) # 4
    THEN [error |-> "struct.error"]
    ELSE float(Fraction(I32At(buffer, offset), 65536))

\* a colour expansion that keeps the top bit of the word
color_to_rbg_unmasked(color) ==
    <<(color \div 1024) * 8, ((color \div 32) % 32) * 8, (color % 32) * 8>>

\* color_to_rbg: color & 0x7FFF, then (color >> 10) << 3, ((color >> 5) & 0x1F) << 3,
\* (color & 0x1F) << 3
color_to_rbg(color) ==
    LET masked == color % 32768 IN
    <<(masked \div 1024) * 8, ((masked \div 32) % 32) * 8, (masked % 32) * 8>>

ByteSamples == {0, 1, 127, 128, 255}

\* the words a fixed field is read from, at offset 0 and behind two other bytes,
\* and buffers that end inside the word
FixedInputs ==
    { [fn |-> "fixed", buffer |-> <<a, b, c, d>>, offset |-> 0]
      : a \in ByteSamples, b \in ByteSamples, c \in ByteSamples, d \in ByteSamples }
    \cup { [fn |-> "fixed", buffer |-> <<9, 9, a, b, 0, d>>, offset |-> 2]
           : a \in ByteSamples, b \in ByteSamples, d \in ByteSamples }
    \cup { [fn |-> "fixed", buffer |-> <<0, 1, 0>>, offset |-> 0],
           [fn |-> "fixed", buffer |-> <<0, 1, 0, 0>>, offset |-> 2] }

ColorInputs == { [fn |-> "color", color |-> c] : c \in 0 .. MaxColor }

InitFields ==
    /\ pc = "call"
    /\ NoMain
    /\ NoDecoder
    /\ file = <<>>
    /\ pristine = <<>>

Returns(value) ==
    /\ pc' = "returned_value"
    /\ result' = value
    /\ UNCHANGED <<rvars, exit_status, err, pvars, mvars, f_pos, end_of_chunk, frame, opcode,
                   num_blocks, colorA, true_colorA, true_color_table, color_ids, f_reads,
                   op_start>>

\* a tkhd, mvhd or NAVG field is read
GetFromBuffer ==
    /\ pc = "call"
    /\ \E in \in FixedInputs :
          /\ arg' = in
          /\ Returns(FixedFractionField(in.buffer, in.offset))

\* a decoder expands a colour word
ColorToRbg ==
    /\ pc = "call"
    /\ \E in \in ColorInputs :
          /\ arg' = in
          /\ Returns(color_to_rbg(in.color))

NextFields == GetFromBuffer \/ ColorToRbg

SpecFields == InitFields /\ [][NextFields]_vars

\* m * 2^k
RECURSIVE Scale(_, _)
Scale(m, k) == IF k = 0 THEN m ELSE Scale(2 * m, k - 1)

\* the word a fixed field was read from
Word == SubSeq(arg.buffer, arg.offset + 1, arg.offset + 4)

\* C17: FixedFractionField yields exactly n / 65536 for the signed 32-bit
\* big-endian n at its offset, that is the signed upper half plus the lower half
\* over 65536: 0x00010000 gives 1.0, 0xFFFF0000 gives -1.0, 0x00008000 gives 0.5,
\* and a word with the top bit set gives a negative value
C17_FixedIsSigned16Dot16 ==
    (pc = "returned_value" /\ arg.fn = "fixed" /\ Len(arg.buffer) >= arg.offset + 4) =>
        /\ DOMAIN result = {"m", "e"}
        /\ result.e >= -16
        /\ Scale(result.m, result.e + 16)
               = (IF Word[1] >= 128 THEN Word[1] - 256 ELSE Word[1]) * 16777216
                 + Word[2] * 65536 + Word[3] * 256 + Word[4]
        /\ Word = <<0, 1, 0, 0>> => result = [m |-> 1, e |-> 0]
        /\ Word = <<255, 255, 0, 0>> => result = [m |-> -1, e |-> 0]
        /\ Word = <<0, 0, 128, 0>> => result = [m |-> 1, e |-> -1]
        /\ Word[1] >= 128 => result.m < 0

\* the word 0xFFFF0000 behind two other bytes was decoded to -1.0
C17_Witness ==
    /\ pc = "returned_value"
    /\ arg.fn = "fixed"
    /\ arg.offset = 2
    /\ Len(arg.buffer) = 6
    /\ Word = <<255, 255, 0, 0>>
    /\ result = [m |-> -1, e |-> 0]

\* C18: for every 16-bit c, color_to_rbg(c) is [R, G, B] with
\* R = ((c >> 10) & 0x1F) << 3, G = ((c >> 5) & 0x1F) << 3, B = (c & 0x1F) << 3, so
\* the top bit of c has no part in it and each component is a multiple of 8 in
\* 0..248; 0x7FFF gives (248, 248, 248), 0 gives (0, 0, 0), 0x7C00 gives (248, 0, 0)
C18_ColorExpansion ==
    (pc = "returned_value" /\ arg.fn = "color") =>
        LET c == arg.color IN
        /\ result = <<((c \div 1024) % 32) * 8, ((c \div 32) % 32) * 8, (c % 32) * 8>>
        /\ \A i \in 1 .. 3 : result[i] \in { 8 * k : k \in 0 .. 31 }
        /\ c = 32767 => result = <<248, 248, 248>>
        /\ c = 0 => result = <<0, 0, 0>>
        /\ c = 31744 => result = <<248, 0, 0>>
        /\ c = 64512 => result = <<248, 0, 0>>

\* 0xFFFF, with the top bit set, was expanded to white
C18_Witness ==
    /\ pc = "returned_value"
    /\ arg.fn = "color"
    /\ arg.color = 65535
    /\ result = <<248, 248, 248>>

----------------------------------------------------------------------------
(* create_image_rpza (src/rpza.py, src/mosaic_py.py) *)

\* int.from_bytes(data, byteorder="big"); 0 for no bytes
RECURSIVE FromBytes(_)
FromBytes(data) ==
    IF data = <<>> THEN 0
    ELSE FromBytes(SubSeq(data, 1, Len(data) - 1)) * 256 + data[Len(data)]

\* read_int(f, size) with f at pos: f.read returns the bytes there are
read_int(pos, size) ==
    [value |-> FromBytes(Slice(file, pos, pos + size)),
     pos |-> pos + Len(Slice(file, pos, pos + size)),
     log |-> [at |-> pos, size |-> size, got |-> Len(Slice(file, pos, pos + size))]]

read_byte(pos) == read_int(pos, 1)

\* RPZAFrame(width, height): np.zeros((height, width, 3))
RPZAFrame(w, h) ==
    [width |-> w, height |-> h,
     surface |-> [p \in (0 .. w - 1) \X (0 .. h - 1) |-> <<0, 0, 0>>],
     pos_x |-> 0, pos_y |-> 0, current_block |-> 0]

total_blocks(fr) == (fr.width \div 4) * (fr.height \div 4)

\* a cursor that wraps one block late
next_block_late(fr) ==
    IF fr.current_block >= total_blocks(fr)
    THEN fr
    ELSE [fr EXCEPT !.pos_x = IF fr.pos_x + 4 > fr.width THEN 0 ELSE fr.pos_x + 4,
                    !.pos_y = IF fr.pos_x + 4 > fr.width THEN fr.pos_y + 4 ELSE fr.pos_y,
                    !.current_block = fr.current_block + 1]

\* RPZAFrame.next_block
next_block(fr) ==
    IF fr.current_block >= total_blocks(fr)
    THEN fr
    ELSE [fr EXCEPT !.pos_x = IF fr.pos_x + 4 >= fr.width THEN 0 ELSE fr.pos_x + 4,
                    !.pos_y = IF fr.pos_x + 4 >= fr.width THEN fr.pos_y + 4 ELSE fr.pos_y,
                    !.current_block = fr.current_block + 1]

\* surface[y + i // 4, x + i % 4] = colors[i] for the 16 pixels of the block at the
\* cursor; numpy drops what lies outside the array
PaintBlock(fr, colors) ==
    [fr EXCEPT !.surface =
        [p \in DOMAIN fr.surface |->
            IF /\ fr.pos_x <= p[1] /\ p[1] < fr.pos_x + 4
               /\ fr.pos_y <= p[2] /\ p[2] < fr.pos_y + 4
            THEN colors[(p[2] - fr.pos_y) * 4 + (p[1] - fr.pos_x) + 1]
            ELSE fr.surface[p]]]

\* x | y
RECURSIVE BitOr(_, _)
BitOr(x, y) ==
    IF x = 0 THEN y
    ELSE IF y = 0 THEN x
    ELSE (IF x % 2 = 1 \/ y % 2 = 1 THEN 1 ELSE 0) + 2 * BitOr(x \div 2, y \div 2)

\* a 4-colour table whose blends are shifted by 4, not 5
ColorTableWide(a, b) ==
    LET R(c) == (c \div 1024) % 32
        G(c) == (c \div 32) % 32
        B(c) == c % 32
        Blend1(ta, tb) == (11 * ta + 21 * tb) \div 16
        Blend2(ta, tb) == (21 * ta + 11 * tb) \div 16
    IN
    <<b % 32768,
      BitOr(BitOr(Blend1(R(a), R(b)) * 1024, Blend1(G(a), G(b)) * 32), Blend1(B(a), B(b))),
      BitOr(BitOr(Blend2(R(a), R(b)) * 1024, Blend2(G(a), G(b)) * 32), Blend2(B(a), B(b))),
      a % 32768>>

\* the 4-colour table of lines 126-144: [colorB & 0x7FFF, 0, 0, colorA & 0x7FFF], then
\* color_table[1] |= ((11 * ta + 21 * tb) >> 5) << shift and
\* color_table[2] |= ((21 * ta + 11 * tb) >> 5) << shift for the red, green and blue
\* components ta, tb of colorA, colorB
ColorTable(a, b) ==
    LET R(c) == (c \div 1024) % 32
        G(c) == (c \div 32) % 32
        B(c) == c % 32
        Blend1(ta, tb) == (11 * ta + 21 * tb) \div 32
        Blend2(ta, tb) == (21 * ta + 11 * tb) \div 32
    IN
    <<b % 32768,
      BitOr(BitOr(Blend1(R(a), R(b)) * 1024, Blend1(G(a), G(b)) * 32), Blend1(B(a), B(b))),
      BitOr(BitOr(Blend2(R(a), R(b)) * 1024, Blend2(G(a), G(b)) * 32), Blend2(B(a), B(b))),
      a % 32768>>

\* the four 2-bit colour ids of a flags byte, most significant pair first
FlagIds(flags) == <<(flags \div 64) % 4, (flags \div 16) % 4, (flags \div 4) % 4, flags % 4>>

\* the opcodes of the samples, as bytes: skip 1 and 2 blocks, one colour for 1 and
\* 2 blocks, four colours for 1 block and for 2 (with index bytes for both), four
\* colours with the implied colorA, sixteen colours, and 0xE0
RpzaOps ==
    { <<128>>, <<129>>, <<160, 124, 0>>, <<161, 3, 224>>,
      <<192, 124, 0, 0, 31, 27, 228, 0, 255>>,
      <<193, 124, 0, 0, 31, 27, 27, 27, 27, 228, 228, 228, 228>>,
      <<124, 0, 128, 31, 27, 228, 0, 255>>,
      <<124, 0>> \o Flatten([i \in 1 .. 15 |-> <<0, i>>]),
      <<224>> }

RpzaBodies == UNION { [1 .. n -> RpzaOps] : n \in 1 .. MaxOps }

\* a sample: 0xE1, the 3-byte length of the sample, the opcodes
RpzaSample(body) == <<225>> \o SubSeq(U32(Len(Flatten(body)) + 4), 2, 4) \o Flatten(body)

\* create_image_rpza calls: a file that holds one sample at sample_offset and may
\* end before the sample does, or a sample without the 0xE1, and a frame of 2 or 4
\* blocks, or of 2 blocks and two more rows
RpzaInputs ==
    { [bytes |-> head \o SubSeq(RpzaSample(body), 1, Len(RpzaSample(body)) - cut),
       call |-> [fn |-> "create_image_rpza", sample_size |-> Len(RpzaSample(body)),
                 sample_offset |-> Len(head), width |-> 8, height |-> h]]
      : body \in RpzaBodies, cut \in 0 .. MaxCut, head \in { <<>>, <<7, 7>> },
        h \in { 4, 6, 8 } }
    \cup { [bytes |-> <<0, 0, 0, 5, 128>>,
            call |-> [fn |-> "create_image_rpza", sample_size |-> 5, sample_offset |-> 0,
                      width |-> 8, height |-> 4]] }

InitRpza ==
    /\ pc = "create_image_rpza"
    /\ NoMain
    /\ \E in \in RpzaInputs :
          /\ file = in.bytes
          /\ pristine = in.bytes
          /\ arg = in.call
    /\ result = [none |-> TRUE]
    /\ f_pos = 0
    /\ end_of_chunk = 0
    /\ frame = [width |-> 0, height |-> 0, surface |-> <<>>, pos_x |-> 0, pos_y |-> 0,
                current_block |-> 0]
    /\ opcode = 0
    /\ num_blocks = 0
    /\ colorA = 0
    /\ true_colorA = <<>>
    /\ true_color_table = <<>>
    /\ color_ids = <<>>
    /\ f_reads = {}
    /\ op_start = [pos |-> 0, block |-> 0]
    /\ NoRle

\* lines 67-77: the frame, the file at sample_offset, the 0xE1 and the length
RpzaOpen ==
    /\ pc = "create_image_rpza"
    /\ \E first \in {read_byte(arg.sample_offset)} : \E len \in {read_int(first.pos, 3)} :
       /\ frame' = RPZAFrame(arg.width, arg.height)
       /\ IF first.value # 225
          THEN /\ pc' = "breakpoint"
               /\ f_pos' = first.pos
               /\ f_reads' = {first.log}
               /\ UNCHANGED end_of_chunk
          ELSE /\ f_pos' = len.pos
               /\ f_reads' = {first.log, len.log}
               /\ IF len.value # arg.sample_size
                  THEN pc' = "breakpoint" /\ UNCHANGED end_of_chunk
                  ELSE pc' = "while" /\ end_of_chunk' = arg.sample_offset + len.value
    /\ UNCHANGED <<rvars, exit_status, err, pvars, mvars, arg, result, opcode, num_blocks, colorA,
                   true_colorA, true_color_table, color_ids, op_start>>

\* lines 79-106, and the reads of the opcode found: lines 114-115, 122-158
RpzaOpcode ==
    /\ pc = "while"
    /\ IF f_pos >= end_of_chunk
       THEN /\ pc' = "returned_frame"
            /\ UNCHANGED <<f_pos, opcode, num_blocks, colorA, true_colorA, true_color_table,
                           color_ids, f_reads, op_start>>
       ELSE \E first \in {read_byte(f_pos)} :
            \E second \in {read_byte(first.pos)} :
            \E peek \in {read_byte(second.pos)} :
            LET short == first.value < 128
                opcode_block == IF ~short THEN first.value
                                ELSE IF peek.value >= 128 THEN 32 ELSE 0
                at == IF short THEN second.pos ELSE first.pos
                log == IF short THEN {first.log, second.log, peek.log} ELSE {first.log}
                op == (opcode_block \div 32) * 32
            IN
            \E one \in {read_int(at, 2)} :
            \E b \in {read_int(IF op = 192 THEN one.pos ELSE at, 2)} :
            \E f1 \in {read_byte(b.pos)} :
            \E f2 \in {read_byte(f1.pos)} :
            \E f3 \in {read_byte(f2.pos)} :
            \E f4 \in {read_byte(f3.pos)} :
            LET a == IF op = 192 THEN one.value ELSE first.value * 256 + second.value IN
            /\ op_start' = [pos |-> f_pos, block |-> frame.current_block]
            /\ opcode' = op
            /\ num_blocks' = IF short /\ peek.value >= 128 THEN 1 ELSE (first.value % 32) + 1
            /\ CASE op = 128 ->
                      /\ pc' = "skip"
                      /\ f_pos' = at
                      /\ f_reads' = f_reads \cup log
                      /\ UNCHANGED <<colorA, true_colorA, true_color_table, color_ids>>
                 [] op = 160 ->
                      /\ pc' = "fill_one"
                      /\ f_pos' = one.pos
                      /\ f_reads' = f_reads \cup log \cup {one.log}
                      /\ colorA' = one.value % 32768
                      /\ true_colorA' = color_to_rbg(one.value % 32768)
                      /\ UNCHANGED <<true_color_table, color_ids>>
                 [] op \in {32, 192} ->
                      /\ pc' = "fill_four"
                      /\ f_pos' = f4.pos
                      /\ f_reads' = f_reads \cup log
                                    \cup (IF op = 192 THEN {one.log} ELSE {})
                                    \cup {b.log, f1.log, f2.log, f3.log, f4.log}
                      /\ colorA' = a
                      /\ true_color_table' =
                             [i \in 1 .. 4 |-> color_to_rbg(ColorTable(a, b.value)[i])]
                      /\ color_ids' = FlagIds(f1.value) \o FlagIds(f2.value)
                                      \o FlagIds(f3.value) \o FlagIds(f4.value)
                      /\ UNCHANGED true_colorA
                 [] op = 0 ->
                      /\ pc' = "fill_sixteen"
                      /\ f_pos' = at
                      /\ f_reads' = f_reads \cup log
                      /\ colorA' = a
                      /\ UNCHANGED <<true_colorA, true_color_table, color_ids>>
                 [] OTHER ->
                      /\ pc' = "breakpoint"
                      /\ f_pos' = at
                      /\ f_reads' = f_reads \cup log
                      /\ UNCHANGED <<colorA, true_colorA, true_color_table, color_ids>>
    /\ UNCHANGED <<rvars, exit_status, err, pvars, mvars, arg, result, end_of_chunk, frame>>

\* lines 110-112: while num_blocks > 0: frame.next_block()
SkipBlock ==
    /\ pc = "skip"
    /\ IF num_blocks > 0
       THEN frame' = next_block(frame) /\ UNCHANGED pc
       ELSE pc' = "while" /\ UNCHANGED frame
    /\ UNCHANGED <<rvars, exit_status, err, pvars, mvars, arg, result, f_pos, end_of_chunk, opcode,
                   num_blocks, colorA, true_colorA, true_color_table, color_ids, f_reads,
                   op_start>>

\* lines 116-121
FillOneBlock ==
    /\ pc = "fill_one"
    /\ IF num_blocks > 0
       THEN /\ frame' = next_block(PaintBlock(frame, [i \in 1 .. 16 |-> true_colorA]))
            /\ num_blocks' = num_blocks - 1
            /\ UNCHANGED pc
       ELSE pc' = "while" /\ UNCHANGED <<frame, num_blocks>>
    /\ UNCHANGED <<rvars, exit_status, err, pvars, mvars, arg, result, f_pos, end_of_chunk, opcode,
                   colorA, true_colorA, true_color_table, color_ids, f_reads, op_start>>

\* lines 159-169
FillFourBlock ==
    /\ pc = "fill_four"
    /\ IF num_blocks > 0
       THEN /\ frame' = next_block(PaintBlock(frame,
                            [i \in 1 .. 16 |-> true_color_table[color_ids[i] + 1]]))
            /\ num_blocks' = num_blocks - 1
            /\ UNCHANGED pc
       ELSE pc' = "while" /\ UNCHANGED <<frame, num_blocks>>
    /\ UNCHANGED <<rvars, exit_status, err, pvars, mvars, arg, result, f_pos, end_of_chunk, opcode,
                   colorA, true_colorA, true_color_table, color_ids, f_reads, op_start>>

\* the 15 colours after colorA, from position pos on
RECURSIVE ReadColors(_, _)
ReadColors(pos, n) ==
    IF n = 0 THEN <<>>
    ELSE The({ <<r>> \o ReadColors(r.pos, n - 1) : r \in {read_int(pos, 2)} })

\* lines 171-182
FillSixteen ==
    /\ pc = "fill_sixteen"
    /\ \E rs \in {ReadColors(f_pos, 15)} :
       LET colors == <<colorA>> \o [i \in 1 .. 15 |-> rs[i].value] IN
       /\ frame' = next_block(PaintBlock(frame, [i \in 1 .. 16 |-> color_to_rbg(colors[i])]))
       /\ f_pos' = rs[15].pos
       /\ f_reads' = f_reads \cup { rs[i].log : i \in 1 .. 15 }
    /\ pc' = "while"
    /\ UNCHANGED <<rvars, exit_status, err, pvars, mvars, arg, result, end_of_chunk, opcode,
                   num_blocks, colorA, true_colorA, true_color_table, color_ids, op_start>>

NextRpza ==
    \/ RpzaOpen
    \/ RpzaOpcode
    \/ SkipBlock
    \/ FillOneBlock
    \/ FillFourBlock
    \/ FillSixteen

SpecRpza == InitRpza /\ [][NextRpza]_vars

(***************************************************************************)
(* C16: every read_int and read_byte of the decoders fails when fewer      *)
(* bytes remain than were asked for, so no read that returned a value to   *)
(* the decoder was made of fewer bytes than its size.                      *)
(***************************************************************************)
C16_ReadsAreWhole == \A r \in f_reads : r.got = r.size

(***************************************************************************)
(* C19: on a SKIP opcode byte B the decoder moves the block cursor by      *)
(* exactly (B & 0x1F) + 1 positions, reads no further byte and goes on to  *)
(* the next opcode: while the opcode is being carried out the cursor is    *)
(* never more than (B & 0x1F) + 1 blocks past where the opcode found it.   *)
(***************************************************************************)
C19_SkipAdvancesNumBlocks ==
    pc = "skip" =>
        /\ f_pos = op_start.pos + 1
        /\ frame.current_block - op_start.block <= (file[op_start.pos + 1] % 32) + 1

\* the reads of the opcode in hand returned all the bytes asked for
OpcodeReadWhole == \A r \in f_reads : r.at >= op_start.pos => r.got = r.size

(***************************************************************************)
(* C20: a four-colour opcode (0xC0, or 0x20 with the implied colorA) for n *)
(* blocks reads the two colours once and 4 index bytes for each of the n   *)
(* blocks: when its last block is painted, the stream stands 4 * n bytes   *)
(* past the colours.                                                       *)
(***************************************************************************)
C20_FourIndexBytesPerBlock ==
    pc = "fill_four" /\ num_blocks = 0 /\ OpcodeReadWhole =>
        LET n == IF opcode = 192 THEN (file[op_start.pos + 1] % 32) + 1 ELSE 1
            colours == IF opcode = 192 THEN 5 ELSE 4
        IN f_pos = op_start.pos + colours + 4 * n

\* the decoder runs on as long as it has a step to take
SpecRpzaFair == SpecRpza /\ WF_vars(NextRpza)

(***************************************************************************)
(* C21: create_image_rpza terminates for every sample and every file: the  *)
(* opcode loop is left, and on the way no opcode has read a byte at or     *)
(* beyond sample_offset + chunk_length.                                    *)
(***************************************************************************)
C21_RpzaTerminates ==
    /\ <>(pc \in {"returned_frame", "breakpoint"})
    /\ [](pc \in {"while", "skip", "fill_one", "fill_four", "fill_sixteen", "returned_frame"} =>
             \A r \in f_reads : r.got > 0 => r.at + r.got <= end_of_chunk)

(***************************************************************************)
(* C22: once total_blocks = (width div 4) * (height div 4) blocks of the   *)
(* frame have been processed, no later step of the decoder changes a pixel *)
(* of the surface, whatever the width and the height.                      *)
(***************************************************************************)
C22_NothingPastLastBlock ==
    [][(pc # "create_image_rpza" /\ frame.current_block = total_blocks(frame))
           => frame'.surface = frame.surface]_vars

(***************************************************************************)
(* RPZAFrame under next_block (src/rpza.py)                                *)
(***************************************************************************)

\* a frame as its constructor leaves it, before any call
InitCursor ==
    /\ pc = "RPZAFrame"
    /\ NoMain
    /\ file = <<>>
    /\ pristine = <<>>
    /\ \E w \in 1 .. MaxWidth, h \in 0 .. MaxHeight : frame = RPZAFrame(w, h)
    /\ arg = [fn |-> "next_block", calls |-> 0]
    /\ result = [none |-> TRUE]
    /\ f_pos = 0
    /\ end_of_chunk = 0
    /\ opcode = 0
    /\ num_blocks = 0
    /\ colorA = 0
    /\ true_colorA = <<>>
    /\ true_color_table = <<>>
    /\ color_ids = <<>>
    /\ f_reads = {}
    /\ op_start = [pos |-> 0, block |-> 0]
    /\ NoRle

\* frame.next_block(); result keeps the frame the call was made on
NextBlock ==
    /\ pc \in {"RPZAFrame", "next_block"}
    /\ arg.calls < MaxCalls
    /\ pc' = "next_block"
    /\ arg' = [arg EXCEPT !.calls = @ + 1]
    /\ result' = [before |-> frame]
    /\ frame' = next_block(frame)
    /\ UNCHANGED <<rvars, exit_status, err, pvars, mvars, f_pos, end_of_chunk, opcode, num_blocks,
                   colorA, true_colorA, true_color_table, color_ids, f_reads, op_start>>

NextCursor == NextBlock

SpecCursor == InitCursor /\ [][NextCursor]_vars

(***************************************************************************)
(* C23: the block cursor starts at (0, 0) with current_block = 0; after    *)
(* any number of next_block calls current_block <= total_blocks, pos_x is  *)
(* a multiple of 4 with 0 <= pos_x < width and, when the width is a        *)
(* multiple of 4, pos_x = 4 * (current_block mod (width / 4)) and          *)
(* pos_y = 4 * (current_block div (width / 4)); a call made at             *)
(* current_block = total_blocks changes none of the three.                 *)
(***************************************************************************)
C23_BlockCursor ==
    /\ pc = "RPZAFrame" => frame.pos_x = 0 /\ frame.pos_y = 0 /\ frame.current_block = 0
    /\ pc \in {"RPZAFrame", "next_block"} =>
          /\ frame.current_block <= total_blocks(frame)
          /\ frame.pos_x % 4 = 0
          /\ 0 <= frame.pos_x /\ frame.pos_x < frame.width
          /\ frame.width % 4 = 0 =>
                /\ frame.pos_x = 4 * (frame.current_block % (frame.width \div 4))
                /\ frame.pos_y = 4 * (frame.current_block \div (frame.width \div 4))
    /\ (pc = "next_block" /\ result.before.current_block = total_blocks(result.before)) =>
          /\ frame.pos_x = result.before.pos_x
          /\ frame.pos_y = result.before.pos_y
          /\ frame.current_block = result.before.current_block

\* an 8 x 8 frame: the cursor has wrapped to the second row of blocks, gone to the
\* last block, and a call was made past it
C23_Witness ==
    /\ pc = "next_block"
    /\ frame.width = 8 /\ frame.height = 8
    /\ arg.calls = 5
    /\ result.before.current_block = 4
    /\ frame.current_block = 4
    /\ frame.pos_x = 0 /\ frame.pos_y = 8

(***************************************************************************)
(* The four-colour table of create_image_rpza, as a function of colorA and *)
(* colorB                                                                  *)
(***************************************************************************)

\* colour words for the table: every 5-bit value in all three channels at once, and
\* every mix of the least and the greatest value of the channels, with and
\* without the top bit
TableColors ==
    { top * 32768 + g * 1057 : g \in 0 .. 31, top \in {0, 1} }
    \cup { top * 32768 + r * 1024 + g * 32 + b
           : r \in {0, 31}, g \in {0, 31}, b \in {0, 31}, top \in {0, 1} }

TableInputs == { [fn |-> "table", colorA |-> a, colorB |-> b] : a \in TableColors, b \in TableColors }

\* lines 125-144 on the two colours read
FourColorTable ==
    /\ pc = "call"
    /\ \E in \in TableInputs :
          /\ arg' = in
          /\ Returns(ColorTable(in.colorA, in.colorB))

NextTable == FourColorTable

SpecTable == InitFields /\ [][NextTable]_vars

\* the 5-bit components of a colour word: red, green, blue
Components(c) == <<(c \div 1024) % 32, (c \div 32) % 32, c % 32>>

(***************************************************************************)
(* C24: in the four-colour table, table[0] = colorB & 0x7FFF, table[3] =   *)
(* colorA & 0x7FFF, and in each of the three channels table[1] holds       *)
(* (11 * a + 21 * b) >> 5 and table[2] holds (21 * a + 11 * b) >> 5 of the *)
(* components a, b of colorA, colorB; every blend lies in 0..31, so every  *)
(* entry is a 15-bit colour made of its three components alone.            *)
(***************************************************************************)
C24_FourColorTable ==
    (pc = "returned_value" /\ arg.fn = "table") =>
        LET a == Components(arg.colorA)
            b == Components(arg.colorB)
        IN
        /\ Len(result) = 4
        /\ result[1] = arg.colorB % 32768
        /\ result[4] = arg.colorA % 32768
        /\ \A ch \in 1 .. 3 :
              /\ (11 * a[ch] + 21 * b[ch]) \div 32 \in 0 .. 31
              /\ (21 * a[ch] + 11 * b[ch]) \div 32 \in 0 .. 31
              /\ Components(result[2])[ch] = (11 * a[ch] + 21 * b[ch]) \div 32
              /\ Components(result[3])[ch] = (21 * a[ch] + 11 * b[ch]) \div 32
        /\ \A i \in 1 .. 4 : result[i] \in 0 .. 32767

\* white with the top bit set against black: the blends are 10 and 20 in every
\* channel
C24_Witness ==
    /\ pc = "returned_value"
    /\ arg.fn = "table"
    /\ arg.colorA = 65535
    /\ arg.colorB = 0
    /\ result = <<0, 10570, 21140, 32767>>

\* a pass of the while loop of the expansion is about to be made for chunk_id
PassesChunk == pc = "while_chunk" /\ chunk_id < next_chunk_id

\* the sample ids the map gives to chunk c
IdsOf(map, c) == { s \in DOMAIN map : map[s][1] = c }

(***************************************************************************)
(* C25: in the sample-to-chunk expansion, advancing past a chunk steps     *)
(* sample_id once more than the number of ids given to that chunk, so the  *)
(* first id of the next chunk is not the id after the last id of the chunk.*)
(***************************************************************************)
C25_ExtraIncrement ==
    [][PassesChunk =>
          /\ sample_id' = sample_id + Cardinality(IdsOf(sample_to_chunk', chunk_id)) + 1
          /\ \A s \in IdsOf(sample_to_chunk', chunk_id) : sample_id' # s + 1]_vars

(***************************************************************************)
(* C25: in the sample-to-chunk expansion, advancing past a chunk with at   *)
(* least one sample steps sample_id exactly as many times as ids were      *)
(* given to that chunk (the for loop leaves the last id in sample_id, the  *)
(* trailing sample_id += 1 makes the one step past it), so the first id of *)
(* the next chunk is the id after the last id of the chunk; only past a    *)
(* chunk with no samples is sample_id stepped once more than ids given.    *)
(***************************************************************************)
C25_NextChunkFollows ==
    [][PassesChunk =>
          LET ids == IdsOf(sample_to_chunk', chunk_id) IN
          /\ Cardinality(ids) = samples_per_chunk
          /\ IF samples_per_chunk >= 1
             THEN /\ sample_id' = sample_id + Cardinality(ids)
                  /\ \E s \in ids : sample_id' = s + 1 /\ \A t \in ids : t <= s
             ELSE sample_id' = sample_id + 1]_vars

\* two chunks of two samples: ids 0, 1 went to chunk 1 and ids 2, 3 to chunk 2
C25_Witness ==
    /\ DOMAIN sample_to_chunk = 0 .. 3
    /\ IdsOf(sample_to_chunk, 1) = {0, 1}
    /\ IdsOf(sample_to_chunk, 2) = {2, 3}
    /\ sample_id = 4

(***************************************************************************)
(* C26: create_mosaic saves a canvas only at a sample whose sample_id + 1  *)
(* is a multiple of cols * rows: of N samples it writes N div (cols *      *)
(* rows) PNGs; the samples after the last full page (all of them when      *)
(* N < cols * rows) are decoded and pasted but never saved, and            *)
(* create_mosaic returns all the same.                                     *)
(***************************************************************************)
C26_OnlyFullPagesSaved ==
    Grid >= 1 =>
        /\ Len(saved) = Len(pastes) \div Grid
        /\ \A i \in 1 .. Len(saved) : saved[i].name = <<i - 1, export_name>>
        /\ pc = "returned" =>
              /\ Len(images) = Len(sample_sizes)
              /\ Len(pastes) = Len(sample_sizes)
              /\ Len(saved) = Len(sample_sizes) \div Grid
              /\ \A i \in 1 .. Len(pastes) :
                    i > Len(saved) * Grid => pastes[i].page = Len(saved)
              /\ exit_status = -1
              /\ err = ""

\* three samples on a grid of two cells: one page saved, the third sample pasted
\* on a second canvas that was never saved, and create_mosaic has returned
C26_Witness ==
    /\ pc = "returned"
    /\ Grid = 2
    /\ Len(sample_sizes) = 3
    /\ Len(pastes) = 3
    /\ pastes[3].page = 1
    /\ Len(saved) = 1
    /\ \E q \in DOMAIN dst.px : dst.px[q] # Blank

(***************************************************************************)
(* C27: whenever handle_panorama_movies renders the lo-res track of a      *)
(* scene diced sceneNumFramesX >= 1 by sceneNumFramesY >= 1, the grid it   *)
(* passes to create_mosaic has at least one column and one row, so the     *)
(* page test (sample_id + 1) mod (cols * rows) is defined.                 *)
(***************************************************************************)
C27_LoResGridNotEmpty ==
    (/\ PanoramaHandled
     /\ export_name = "FILE-loressceneTrack"
     /\ I16At(PanoEntry, 122) >= 1
     /\ I16At(PanoEntry, 124) >= 1) =>
        /\ columns >= 1
        /\ rows >= 1
        /\ err # "ZeroDivisionError"

(***************************************************************************)
(* C28: in create_mosaic the movie is open at every sample seek and read,  *)
(* and closed on every way out of the sample loop: when the loop is done,  *)
(* on a decode error and on a failed sample lookup; no sample is read      *)
(* after the movie was closed.                                             *)
(***************************************************************************)
C28_MovieOpenWhileReading ==
    /\ [][reads' # reads => movie = "open"]_vars
    /\ [][movie # "open" => reads' = reads]_vars
    /\ [](pc = "loop" => movie = "open")
    /\ [](pc \in {"returned", "exit", "done"} => movie # "open")

\* the codec has rejected the second sample: two reads were made and the movie is
\* closed
C28_Witness ==
    /\ pc = "exit"
    /\ err = "DecodeError"
    /\ Len(reads) = 2
    /\ Len(images) = 1
    /\ movie = "closed"

(***************************************************************************)
(* create_image_rle (src/rle.py)                                           *)
(***************************************************************************)

\* int.from_bytes(data, byteorder="big", signed=True)
FromBytesSigned(data) ==
    IF data = <<>> THEN 0
    ELSE IF data[1] >= 128 THEN FromBytes(data) - Scale(1, 8 * Len(data))
    ELSE FromBytes(data)

\* read_int(f, size, signed) of rle.py with f at pos: f.read returns the bytes
\* there are
rle_read_int(pos, size, signed) ==
    [value |-> IF signed THEN FromBytesSigned(Slice(file, pos, pos + size))
               ELSE FromBytes(Slice(file, pos, pos + size)),
     pos |-> pos + Len(Slice(file, pos, pos + size)),
     log |-> [at |-> pos, size |-> size, got |-> Len(Slice(file, pos, pos + size))]]

rle_read_byte(pos) == rle_read_int(pos, 1, FALSE)

read_byteS(pos) == rle_read_int(pos, 1, TRUE)

\* f.read(n) with the bytes thrown away: where f stands afterwards
SkipRead(pos, n) == pos + Len(Slice(file, pos, pos + n))

\* RLEFrame(width, height): np.zeros((height, width, 3))
RLEFrame(w, h) ==
    [width |-> w, height |-> h,
     surface |-> [p \in (0 .. w - 1) \X (0 .. h - 1) |-> <<0, 0, 0>>],
     pos_x |-> 0, pos_y |-> 0]

skip_pixels(fr, skip) == [fr EXCEPT !.pos_x = @ + skip]

next_pixel(fr) == [fr EXCEPT !.pos_x = @ + 1]

next_line(fr) == [fr EXCEPT !.pos_x = 0, !.pos_y = @ + 1]

\* the indices the numpy slice [x : x + 1] selects on an axis of length n
SliceIndex(x, n) ==
    IF x >= 0 THEN (IF x < n THEN {x} ELSE {})
    ELSE IF x = -1 THEN {}
    ELSE IF n + x >= 0 THEN {n + x} ELSE {}

\* a pixel write that does not move the cursor
set_pixel_stay(fr, rgb) ==
    [fr EXCEPT !.surface =
        [p \in DOMAIN fr.surface |->
            IF p[1] \in SliceIndex(fr.pos_x, fr.width) /\ p[2] \in SliceIndex(fr.pos_y, fr.height)
            THEN rgb ELSE fr.surface[p]]]

\* RLEFrame.set_pixel: surface[pos_y : pos_y + 1, pos_x : pos_x + 1] = [R, G, B], then
\* next_pixel
set_pixel(fr, rgb) ==
    next_pixel([fr EXCEPT !.surface =
        [p \in DOMAIN fr.surface |->
            IF p[1] \in SliceIndex(fr.pos_x, fr.width) /\ p[2] \in SliceIndex(fr.pos_y, fr.height)
            THEN rgb ELSE fr.surface[p]]])

\* set_pixel for each triple of a sequence, in order
RECURSIVE SetPixels(_, _)
SetPixels(fr, rgbs) ==
    IF rgbs = <<>> THEN fr
    ELSE The({ SetPixels(g, Tail(rgbs)) : g \in {set_pixel(fr, Head(rgbs))} })

\* count triples read from pos on, one read_byte after the other
RECURSIVE ReadTriples(_, _)
ReadTriples(pos, count) ==
    IF count = 0 THEN [rgbs |-> <<>>, pos |-> pos, log |-> {}]
    ELSE The({ The({ [rgbs |-> <<<<R.value, G.value, B.value>>>> \o rest.rgbs,
                      pos |-> rest.pos,
                      log |-> {R.log, G.log, B.log} \cup rest.log]
                     : rest \in {ReadTriples(B.pos, count - 1)} })
               : R \in {rle_read_byte(pos)},
                 G \in {rle_read_byte(SkipRead(pos, 1))},
                 B \in {rle_read_byte(SkipRead(pos, 2))} })

\* the codes of a line, as bytes: in-line skips of 1, 2 and 3 columns and with the
\* bytes 128 and 255, literal runs of 1 and 2 pixels, repeated runs of 2 and 3
\* pixels and one of 6, longer than the line
RleCodes ==
    { <<0, 1>>, <<0, 2>>, <<0, 3>>, <<0, 128>>, <<0, 255>>,
      <<1, 10, 20, 30>>, <<2, 10, 20, 30, 40, 50, 60>>,
      <<254, 70, 80, 90>>, <<253, 1, 2, 3>>, <<250, 4, 5, 6>> }

\* a line: the skip count, up to MaxCodes codes, and the -1 that ends it
RleLines ==
    { <<sk>> \o Flatten(codes) \o <<255>>
      : sk \in { 1, 2 }, codes \in UNION { [1 .. n -> RleCodes] : n \in 0 .. MaxCodes } }

\* a sample: the flags byte, the 3-byte length of the sample, the header, the
\* first line, two unknown bytes, the number of lines, two unknown bytes, the lines
RleSample(header, first, lines) ==
    LET body == U16(header) \o U16(first) \o <<0, 0>> \o U16(Len(lines)) \o <<0, 0>>
                \o Flatten(lines)
    IN <<0>> \o SubSeq(U32(Len(body) + 4), 2, 4) \o body

\* create_image_rle calls on a file that holds one sample at sample_offset: an
\* update of one line or of two from line 0 or 1 of a frame 4 wide and 3 high, a
\* sample with another header, a sample whose length is not the sample size, a
\* depth that is not 24
RleInputs ==
    LET RleCall(bytes, head, size, depth) ==
            [bytes |-> head \o bytes,
             call |-> [fn |-> "create_image_rle", sample_size |-> size,
                       sample_offset |-> Len(head), width |-> 4, height |-> 3,
                       depth |-> depth]]
    IN
    { RleCall(RleSample(8, first, lines), head, Len(RleSample(8, first, lines)), 24)
      : first \in { 0, 1 }, head \in { <<>>, <<7, 7>> },
        lines \in { <<l>> : l \in RleLines }
                  \cup { <<l, <<1, 254, 9, 9, 9, 255>>>> : l \in RleLines } }
    \cup { RleCall(RleSample(0, 0, <<>>), <<>>, Len(RleSample(0, 0, <<>>)), 24),
           RleCall(RleSample(8, 0, <<>>), <<>>, Len(RleSample(8, 0, <<>>)) + 1, 24),
           RleCall(RleSample(8, 0, <<>>), <<>>, Len(RleSample(8, 0, <<>>)), 16) }

InitRle ==
    /\ pc = "create_image_rle"
    /\ NoMain
    /\ \E in \in RleInputs :
          /\ file = in.bytes
          /\ pristine = in.bytes
          /\ arg = in.call
    /\ result = [none |-> TRUE]
    /\ f_pos = 0
    /\ end_of_chunk = 0
    /\ frame = [width |-> 0, height |-> 0, surface |-> <<>>, pos_x |-> 0, pos_y |-> 0,
                current_block |-> 0]
    /\ opcode = 0
    /\ num_blocks = 0
    /\ colorA = 0
    /\ true_colorA = <<>>
    /\ true_color_table = <<>>
    /\ color_ids = <<>>
    /\ f_reads = {}
    /\ op_start = [pos |-> 0, block |-> 0]
    /\ NoRle

\* what no step of create_image_rle changes
RleKeeps ==
    UNCHANGED <<exit_status, err, pvars, mvars, arg, result, end_of_chunk, opcode, num_blocks,
                colorA, true_colorA, true_color_table, color_ids>>

\* lines 70-86: the frame, the file at sample_offset, the two asserts, the header
RleOpen ==
    /\ pc = "create_image_rle"
    /\ \E chunk_size \in {rle_read_int(SkipRead(arg.sample_offset, 1), 3, FALSE)} :
       \E header \in {rle_read_int(chunk_size.pos, 2, FALSE)} :
       \E first \in {rle_read_int(header.pos, 2, FALSE)} :
       \E lines \in {rle_read_int(SkipRead(first.pos, 2), 2, FALSE)} :
       /\ op_start' = [pos |-> arg.sample_offset, block |-> 0]
       /\ IF chunk_size.value # arg.sample_size \/ arg.depth # 24
          THEN /\ pc' = "AssertionError"
               /\ frame' = RLEFrame(arg.width, arg.height)
               /\ f_pos' = chunk_size.pos
               /\ f_reads' = {chunk_size.log}
               /\ UNCHANGED <<start_line, number_of_lines_to_update>>
          ELSE IF header.value # 8
          THEN /\ pc' = "returned_none"
               /\ frame' = RLEFrame(arg.width, arg.height)
               /\ f_pos' = header.pos
               /\ f_reads' = {chunk_size.log, header.log}
               /\ UNCHANGED <<start_line, number_of_lines_to_update>>
          ELSE /\ pc' = "for_line"
               /\ frame' = [RLEFrame(arg.width, arg.height) EXCEPT !.pos_y = first.value]
               /\ start_line' = first.value
               /\ number_of_lines_to_update' = lines.value
               /\ f_pos' = SkipRead(lines.pos, 2)
               /\ f_reads' = {chunk_size.log, header.log, first.log, lines.log}
    /\ RleKeeps
    /\ UNCHANGED <<i_line, skip_count, rle_code>>

\* lines 89-94: the next line of the update, or the return of the frame
RleLine ==
    /\ pc = "for_line"
    /\ IF i_line < number_of_lines_to_update
       THEN \E skip \in {rle_read_byte(f_pos)} : \E code \in {read_byteS(skip.pos)} :
            /\ pc' = "while_code"
            /\ skip_count' = skip.value
            /\ frame' = skip_pixels(frame, skip.value - 1)
            /\ rle_code' = code.value
            /\ f_pos' = code.pos
            /\ f_reads' = f_reads \cup {skip.log, code.log}
            /\ op_start' = [op_start EXCEPT !.pos = skip.pos]
       ELSE /\ pc' = "returned_frame"
            /\ UNCHANGED <<frame, skip_count, rle_code, f_pos, f_reads, op_start>>
    /\ RleKeeps
    /\ UNCHANGED <<start_line, number_of_lines_to_update, i_line>>

\* lines 99-101 and 112: an in-line skip, and the code after it
RleSkip ==
    /\ pc = "while_code"
    /\ rle_code = 0
    /\ \E skip \in {read_byteS(f_pos)} : \E code \in {read_byteS(skip.pos)} :
       /\ skip_count' = skip.value
       /\ frame' = skip_pixels(frame, skip.value - 1)
       /\ rle_code' = code.value
       /\ f_pos' = code.pos
       /\ f_reads' = f_reads \cup {skip.log, code.log}
       /\ op_start' = [op_start EXCEPT !.pos = f_pos]
    /\ RleKeeps
    /\ UNCHANGED <<pc, start_line, number_of_lines_to_update, i_line>>

\* lines 102-106 and 112: rle_code pixels are read and set, and the code after them
RleCopy ==
    /\ pc = "while_code"
    /\ rle_code > 0
    /\ \E run \in {ReadTriples(f_pos, rle_code)} : \E code \in {read_byteS(run.pos)} :
       /\ frame' = SetPixels(frame, run.rgbs)
       /\ rle_code' = code.value
       /\ f_pos' = code.pos
       /\ f_reads' = f_reads \cup run.log \cup {code.log}
       /\ op_start' = [op_start EXCEPT !.pos = f_pos]
    /\ RleKeeps
    /\ UNCHANGED <<pc, start_line, number_of_lines_to_update, i_line, skip_count>>

\* lines 107-112: one pixel is read and set -rle_code times, and the code after it
RleRepeat ==
    /\ pc = "while_code"
    /\ rle_code < -1
    /\ \E run \in {ReadTriples(f_pos, 1)} : \E code \in {read_byteS(run.pos)} :
       /\ frame' = SetPixels(frame, [k \in 1 .. -rle_code |-> run.rgbs[1]])
       /\ rle_code' = code.value
       /\ f_pos' = code.pos
       /\ f_reads' = f_reads \cup run.log \cup {code.log}
       /\ op_start' = [op_start EXCEPT !.pos = f_pos]
    /\ RleKeeps
    /\ UNCHANGED <<pc, start_line, number_of_lines_to_update, i_line, skip_count>>

\* lines 97 and 114: the code -1 ends the line
RleEndLine ==
    /\ pc = "while_code"
    /\ rle_code = -1
    /\ frame' = next_line(frame)
    /\ i_line' = i_line + 1
    /\ pc' = "for_line"
    /\ RleKeeps
    /\ UNCHANGED <<start_line, number_of_lines_to_update, skip_count, rle_code, f_pos,
                   f_reads, op_start>>

NextRle ==
    \/ RleOpen
    \/ RleLine
    \/ RleSkip
    \/ RleCopy
    \/ RleRepeat
    \/ RleEndLine

SpecRle == InitRle /\ [][NextRle]_vars

(***************************************************************************)
(* C29: when rle_code = 0 the next byte is read as an unsigned skip count  *)
(* s, whatever the byte in 0..255, and the cursor moves s - 1 columns on   *)
(* along the line.                                                         *)
(***************************************************************************)
C29_InlineSkipIsUnsigned ==
    [][(pc = "while_code" /\ rle_code = 0 /\ f_pos < Len(file)) =>
           /\ skip_count' = file[f_pos + 1]
           /\ frame'.pos_x = frame.pos_x + file[f_pos + 1] - 1
           /\ frame'.pos_y = frame.pos_y]_vars

\* the k-th triple of the file after position pos (k from 0)
TripleAt(pos, k) == <<file[pos + 3 * k + 1], file[pos + 3 * k + 2], file[pos + 3 * k + 3]>>

\* a run of a line is about to be decoded, with the cursor on or right of column 0
\* and the bytes of the run in the file
RunAhead(triples) ==
    /\ pc = "while_code"
    /\ frame.pos_x >= 0
    /\ f_pos + 3 * triples < Len(file)

====
